---- MODULE Spec2Model ----
(***************************************************************************)
(* A model of the HyperLogLog commands of ardb (src/src/hyperloglog.cpp):  *)
(* PFADD, PFCOUNT and PFMERGE over a key/value backend, with the sparse    *)
(* and dense sketch encodings kept as the byte strings the code stores.    *)
(*                                                                         *)
(* A sketch is a tuple of bytes (0..255).  Pointers of the C code are      *)
(* 0-based offsets into that tuple.  A member is given by its 64-bit       *)
(* MurmurHash64A value, kept as four 16-bit limbs (least significant       *)
(* first), so that no arithmetic leaves the range of TLC's integers.       *)
(***************************************************************************)
EXTENDS Integers, Sequences, FiniteSets, Bags, TLC

VARIABLES
    store,                  \* backend: key -> [found, value]
    hll_sparse_max_bytes,   \* m_config.hll_sparse_max_bytes
    lastcmd,                \* the last command: its arguments, reply and Set calls
    get_error,              \* backend: key -> the error Get fails with, 0 when it does not fail
    set_error,              \* backend: key -> the error Set fails with, 0 when it does not fail
    threads,                \* thread -> the call it executes, its position and its locals
    locks,                  \* m_key_locker: key -> the thread holding the key's lock, 0 when free
    PE,                     \* hllCount: static double PE[64]
    initialized,            \* hllCount: static int initialized
    call,                   \* the last call of a function or macro on its own: arguments and result
    sortedKeys,             \* KeyCache: std::set<KeyEntry>, ordered by KeyEntry::operator<
    ttlByKey,               \* KeyCache: dense_hash_map, key -> ttl
    currentTime,            \* the clock: what ardb::get_current_epoch_millis() returns
    lock,                   \* ConcurrentKeyCache: SpinRWLock, its readers and its writer
    ensureTtlLock           \* ConcurrentKeyCache: SpinMutexLock, the thread holding it, 0 when free

(* The state of the key cache and of its locks.                            *)
cache == <<sortedKeys, ttlByKey, currentTime, lock, ensureTtlLock>>

vars == <<store, hll_sparse_max_bytes, lastcmd, get_error, set_error, cache, threads, locks, PE,
          initialized, call>>

(* What a command executed from Get to reply in one step leaves alone.     *)
rest == <<hll_sparse_max_bytes, get_error, set_error, cache, threads, locks, PE, initialized,
          call>>

(* The key cache as its constructor leaves it, at the start of the clock,  *)
(* with both locks free.                                                   *)
StartTime == 1
InitCache ==
    /\ sortedKeys = {}
    /\ ttlByKey = <<>>
    /\ currentTime = StartTime
    /\ lock = [readers |-> {}, writer |-> 0]
    /\ ensureTtlLock = 0

----------------------------------------------------------------------------
(* Program constants (the #defines of hyperloglog.cpp).                    *)

HLL_P == 14
HLL_REGISTERS == 2^HLL_P
HLL_P_MASK == HLL_REGISTERS - 1
HLL_BITS == 6
HLL_REGISTER_MAX == 2^HLL_BITS - 1
HLL_HDR_SIZE == 16
HLL_DENSE_SIZE == HLL_HDR_SIZE + ((HLL_REGISTERS * HLL_BITS + 7) \div 8)
HLL_DENSE == 0
HLL_SPARSE == 1
HLL_RAW == 255
HLL_MAX_ENCODING == 1
HLL_SPARSE_XZERO_BIT == 64
HLL_SPARSE_VAL_BIT == 128
HLL_SPARSE_VAL_MAX_VALUE == 32
HLL_SPARSE_VAL_MAX_LEN == 4
HLL_SPARSE_ZERO_MAX_LEN == 64
HLL_SPARSE_XZERO_MAX_LEN == 16384

(* Offsets of the header fields of struct hllhdr.                          *)
OFF_ENCODING == 4
OFF_CARD == 8

(* Return codes of the Ardb layer that the model distinguishes.  They are   *)
(* int constants below 0 (ArdbServer::PFAdd replies an error when ret < 0) *)
(* whose values a header outside this file gives: the model takes two      *)
(* distinct negative integers other than the -1 of hllAdd.                 *)
ERR_INVALID_HLL_TYPE == -2
ERR_CORRUPTED_HLL_VALUE == -3

(* Likewise the code Get returns for a key that does not exist, and the    *)
(* code Ardb::PFAdd returns when Get fails otherwise.                      *)
ERR_NOT_EXIST == -4
ERR_INVALID_TYPE == -5

----------------------------------------------------------------------------
(* Bit operations on naturals, as C computes them on unsigned values.      *)

(* a & b and a | b of two 4-bit values, bit by bit.                        *)
AndNibble ==
    [a \in 0..15 |-> [b \in 0..15 |->
        (a % 2) * (b % 2)
        + 2 * (((a \div 2) % 2) * ((b \div 2) % 2))
        + 4 * (((a \div 4) % 2) * ((b \div 4) % 2))
        + 8 * ((a \div 8) * (b \div 8))]]

OrNibble == [a \in 0..15 |-> [b \in 0..15 |-> a + b - AndNibble[a][b]]]

(* a & b and a | b, four bits at a time.                                   *)
RECURSIVE BitAnd(_, _)
BitAnd(a, b) ==
    IF a = 0 \/ b = 0 THEN 0
    ELSE AndNibble[a % 16][b % 16] + 16 * BitAnd(a \div 16, b \div 16)

RECURSIVE BitOr(_, _)
BitOr(a, b) ==
    IF a = 0 THEN b
    ELSE IF b = 0 THEN a
    ELSE OrNibble[a % 16][b % 16] + 16 * BitOr(a \div 16, b \div 16)

Shl(a, k) == a * 2^k
Shr(a, k) == a \div 2^k
(* x & ~m, the result stored in a uint8_t.                                 *)
AndNot8(x, m) == BitAnd(x % 256, 255 - (m % 256))

Max2(a, b) == IF a > b THEN a ELSE b

----------------------------------------------------------------------------
(* Loops.  for (i = lo; i <= hi && !st.done; i++) st = Step(st, i): the    *)
(* loop's variables are the record st, whose field 'done' tells that the   *)
(* loop was left (break, return).  The range is halved, and its first half *)
(* is done before the second is entered, so that the evaluation nests to   *)
(* the logarithm of the range's length.                                    *)
(* A while loop over a pointer p is such a loop over the offsets of the    *)
(* string: the body runs at the offset p has reached and at no other.      *)
RECURSIVE Iterate(_, _, _, _)
Iterate(Step(_, _), st, lo, hi) ==
    IF st.done \/ lo > hi THEN st
    ELSE IF lo = hi THEN Step(st, lo)
    ELSE Iterate(Step, Iterate(Step, st, lo, (lo + hi) \div 2),
                 (lo + hi) \div 2 + 1, hi)

----------------------------------------------------------------------------
(* Byte strings.  std::string and sds both keep a NUL after the last byte, *)
(* which the dense macros read (and write back unchanged) for the last     *)
(* register: offset Len(s) reads 0.                                        *)

ZeroBytes(n) == SubSeq([i \in 1..n |-> 0], 1, n)

ByteAt(s, off) == IF off < Len(s) THEN s[off + 1] ELSE 0

(* A store through a pointer; a store at or past the end of the string     *)
(* does not change the string's bytes.                                     *)
SetByteAt(s, off, v) == IF off < Len(s) THEN [s EXCEPT ![off + 1] = v] ELSE s

Encoding(s) == ByteAt(s, OFF_ENCODING)

----------------------------------------------------------------------------
(* Hashes.  A uint64_t hash is <<w0, w1, w2, w3>>, w0 the low 16 bits.     *)

HashBit(h, b) == Shr(h[(b \div 16) + 1], b % 16) % 2

(* hash |= ((uint64_t) 1 << 63)                                            *)
HashSetBit63(h) == [h EXCEPT ![4] = BitOr(h[4], 32768)]

(* The loop of hllPatLen: count the zero bits from bit 'bit' upwards.      *)
RECURSIVE PatLenLoop(_, _, _)
PatLenLoop(h, bit, count) ==
    IF HashBit(h, bit) = 0 THEN PatLenLoop(h, bit + 1, count + 1) ELSE count

(* A faulty hllPatLen: the zero bits are counted from bit 0.               *)
MutPatLenFromBitZero(h) ==
    [index |-> h[1] % HLL_REGISTERS,
     count |-> PatLenLoop(HashSetBit63(h), 0, 1)]

(* hllPatLen: the register index (stored through regp) and the returned    *)
(* pattern length.                                                         *)
hllPatLen(h) ==
    [index |-> h[1] % HLL_REGISTERS,
     count |-> PatLenLoop(HashSetBit63(h), HLL_P, 1)]

----------------------------------------------------------------------------
(* Dense representation: the 6-bit register macros.  's' is the whole      *)
(* sketch; hdr->registers starts at offset HLL_HDR_SIZE.                   *)

HLL_DENSE_GET_REGISTER(s, regnum) ==
    LET byte == (regnum * HLL_BITS) \div 8
        fb   == (regnum * HLL_BITS) % 8
        fb8  == 8 - fb
        b0   == ByteAt(s, HLL_HDR_SIZE + byte)
        b1   == ByteAt(s, HLL_HDR_SIZE + byte + 1)
    IN  BitAnd(BitOr(Shr(b0, fb), Shl(b1, fb8)), HLL_REGISTER_MAX)

(* A faulty HLL_DENSE_SET_REGISTER: the bits of the register are not       *)
(* cleared before the value is or-ed in.                                   *)
MutDenseSetWithoutClear(s, regnum, val) ==
    LET byte == (regnum * HLL_BITS) \div 8
        fb   == (regnum * HLL_BITS) % 8
        fb8  == 8 - fb
        o0   == HLL_HDR_SIZE + byte
        o1   == HLL_HDR_SIZE + byte + 1
        s1   == SetByteAt(s, o0, BitOr(ByteAt(s, o0), Shl(val, fb) % 256))
    IN  SetByteAt(s1, o1, BitOr(ByteAt(s1, o1), Shr(val, fb8) % 256))

HLL_DENSE_SET_REGISTER(s, regnum, val) ==
    LET byte == (regnum * HLL_BITS) \div 8
        fb   == (regnum * HLL_BITS) % 8
        fb8  == 8 - fb
        o0   == HLL_HDR_SIZE + byte
        o1   == HLL_HDR_SIZE + byte + 1
        n0   == BitOr(AndNot8(ByteAt(s, o0), Shl(HLL_REGISTER_MAX, fb)),
                      Shl(val, fb) % 256)
        s1   == SetByteAt(s, o0, n0)
        n1   == BitOr(AndNot8(ByteAt(s1, o1), Shr(HLL_REGISTER_MAX, fb8)),
                      Shr(val, fb8) % 256)
    IN  SetByteAt(s1, o1, n1)

(* A faulty DenseAddAt: the register is rewritten, and the add reported as  *)
(* an update, when count equals the register as well.                      *)
MutDenseAddAtOrEqual(s, index, count) ==
    IF count >= HLL_DENSE_GET_REGISTER(s, index)
    THEN [ret |-> 1, value |-> HLL_DENSE_SET_REGISTER(s, index, count)]
    ELSE [ret |-> 0, value |-> s]

(* hllDenseAdd: [ret, value].                                              *)
DenseAddAt(s, index, count) ==
    IF count > HLL_DENSE_GET_REGISTER(s, index)
    THEN [ret |-> 1, value |-> HLL_DENSE_SET_REGISTER(s, index, count)]
    ELSE [ret |-> 0, value |-> s]

hllDenseAdd(s, h) == DenseAddAt(s, hllPatLen(h).index, hllPatLen(h).count)

----------------------------------------------------------------------------
(* Sparse representation: the opcode macros, on the byte at offset p.      *)

HLL_SPARSE_IS_ZERO(s, p) == BitAnd(ByteAt(s, p), 192) = 0
HLL_SPARSE_IS_XZERO(s, p) == BitAnd(ByteAt(s, p), 192) = HLL_SPARSE_XZERO_BIT
HLL_SPARSE_IS_VAL(s, p) == BitAnd(ByteAt(s, p), HLL_SPARSE_VAL_BIT) # 0
HLL_SPARSE_ZERO_LEN(s, p) == BitAnd(ByteAt(s, p), 63) + 1
HLL_SPARSE_XZERO_LEN(s, p) ==
    BitOr(Shl(BitAnd(ByteAt(s, p), 63), 8), ByteAt(s, p + 1)) + 1
HLL_SPARSE_VAL_VALUE(s, p) == BitAnd(Shr(ByteAt(s, p), 2), 31) + 1
HLL_SPARSE_VAL_LEN(s, p) == BitAnd(ByteAt(s, p), 3) + 1

(* A faulty HLL_SPARSE_VAL_SET: the value stored without the "- 1".        *)
MutValSetNoMinusOne(val, len) ==
    <<BitOr(BitOr(Shl(val, 2), len - 1), HLL_SPARSE_VAL_BIT) % 256>>

(* The _SET macros give the byte(s) they store (a uint8_t each).           *)
HLL_SPARSE_VAL_SET(val, len) ==
    <<BitOr(BitOr(Shl(val - 1, 2), len - 1), HLL_SPARSE_VAL_BIT) % 256>>
HLL_SPARSE_ZERO_SET(len) == <<(len - 1) % 256>>
(* A faulty HLL_SPARSE_XZERO_SET: the length stored without the "- 1".      *)
MutXzeroSetNoMinusOne(len) ==
    <<BitOr(Shr(len, 8), HLL_SPARSE_XZERO_BIT) % 256, BitAnd(len, 255)>>

HLL_SPARSE_XZERO_SET(len) ==
    <<BitOr(Shr(len - 1, 8), HLL_SPARSE_XZERO_BIT) % 256, BitAnd(len - 1, 255)>>

----------------------------------------------------------------------------
(* Header.                                                                 *)

NULL == -1

(* A faulty HLL_INVALIDATE_CACHE: the header is left as it is.             *)
MutInvalidateNothing(s) == s

(* (hdr)->card[0] |= (1<<7)                                                *)
HLL_INVALIDATE_CACHE(s) ==
    SetByteAt(s, OFF_CARD, BitOr(ByteAt(s, OFF_CARD), 128))

(* ((hdr)->card[0] & (1<<7)) == 0                                          *)
HLL_VALID_CACHE(s) == BitAnd(ByteAt(s, OFF_CARD), 128) = 0

(* The loop of createHLLObject that writes the XZERO opcodes.              *)
RECURSIVE CreateLoop(_, _, _)
CreateLoop(s, p, aux) ==
    IF aux # 0
    THEN LET xzero == IF HLL_SPARSE_XZERO_MAX_LEN > aux THEN aux
                      ELSE HLL_SPARSE_XZERO_MAX_LEN
             op    == HLL_SPARSE_XZERO_SET(xzero)
         IN  CreateLoop(SetByteAt(SetByteAt(s, p, op[1]), p + 1, op[2]),
                        p + 2, aux - xzero)
    ELSE s

(* A faulty createHLLObject: the magic is not written.                     *)
MutCreateNoMagic ==
    SetByteAt(CreateLoop(ZeroBytes(HLL_HDR_SIZE + 2), HLL_HDR_SIZE, HLL_REGISTERS),
              OFF_ENCODING, HLL_SPARSE)

createHLLObject ==
    LET sparselen == HLL_HDR_SIZE
                     + (((HLL_REGISTERS + (HLL_SPARSE_XZERO_MAX_LEN - 1))
                         \div HLL_SPARSE_XZERO_MAX_LEN) * 2)
        filled    == CreateLoop(ZeroBytes(sparselen), HLL_HDR_SIZE, HLL_REGISTERS)
        magic     == [filled EXCEPT ![1] = 72, ![2] = 89, ![3] = 76, ![4] = 76]
    IN  SetByteAt(magic, OFF_ENCODING, HLL_SPARSE)

isHLLObjectOrReply(s) ==
    /\ Len(s) >= HLL_HDR_SIZE
    /\ s[1] = 72 /\ s[2] = 89 /\ s[3] = 76 /\ s[4] = 76
    /\ Encoding(s) <= HLL_MAX_ENCODING
    /\ ~(Encoding(s) = HLL_DENSE /\ Len(s) # HLL_DENSE_SIZE)

----------------------------------------------------------------------------
(* hllSparseToDense.                                                       *)

DenseZeroes == ZeroBytes(HLL_DENSE_SIZE)

(* A faulty DenseSetRun: the registers of the run are left at 0.           *)
MutDenseSetRunNone(dense, idx, runlen, regval) == dense

(* while (runlen--) { HLL_DENSE_SET_REGISTER(hdr->registers, idx, regval); *)
(*                    idx++; }                                             *)
RECURSIVE DenseSetRun(_, _, _, _)
DenseSetRun(dense, idx, runlen, regval) ==
    IF runlen = 0 THEN dense
    ELSE DenseSetRun(HLL_DENSE_SET_REGISTER(dense, idx, regval),
                     idx + 1, runlen - 1, regval)

(* The body of the loop over the opcodes, for the opcode at q = st.p;      *)
(* st is [dense, p, idx, top]; top is one more than the highest register   *)
(* index HLL_DENSE_SET_REGISTER was called with (0 when it was not called). *)
SparseToDenseStep(sparse, st, q) ==
    IF q # st.p THEN st
    ELSE IF HLL_SPARSE_IS_ZERO(sparse, q)
    THEN [st EXCEPT !.p = q + 1, !.idx = @ + HLL_SPARSE_ZERO_LEN(sparse, q)]
    ELSE IF HLL_SPARSE_IS_XZERO(sparse, q)
    THEN [st EXCEPT !.p = q + 2, !.idx = @ + HLL_SPARSE_XZERO_LEN(sparse, q)]
    ELSE [st EXCEPT !.p = q + 1,
                    !.idx = @ + HLL_SPARSE_VAL_LEN(sparse, q),
                    !.top = Max2(@, st.idx + HLL_SPARSE_VAL_LEN(sparse, q)),
                    !.dense = DenseSetRun(@, st.idx, HLL_SPARSE_VAL_LEN(sparse, q),
                                          HLL_SPARSE_VAL_VALUE(sparse, q))]

SparseToDenseLoop(sparse, dense) ==
    Iterate(LAMBDA st, q : SparseToDenseStep(sparse, st, q),
            [dense |-> dense, p |-> HLL_HDR_SIZE, idx |-> 0, top |-> 0,
             done |-> FALSE],
            HLL_HDR_SIZE, Len(sparse) - 1)

(* [ret, value]: value is the converted sketch, or the input when the      *)
(* function returns before replacing *value.                               *)
SparseToDenseResult(sparse, r) ==
    IF r.idx # HLL_REGISTERS THEN [ret |-> -1, value |-> sparse]
    ELSE [ret |-> 0, value |-> r.dense]

hllSparseToDense(sparse) ==
    IF Encoding(sparse) = HLL_DENSE THEN [ret |-> 0, value |-> sparse]
    ELSE SparseToDenseResult(sparse,
             SparseToDenseLoop(sparse,
                 SetByteAt(SubSeq(sparse, 1, HLL_HDR_SIZE)
                           \o SubSeq(DenseZeroes, HLL_HDR_SIZE + 1, HLL_DENSE_SIZE),
                           OFF_ENCODING, HLL_DENSE)))

----------------------------------------------------------------------------
(* hllSparseAdd.                                                           *)

(* Step 1: the loop locating the opcode that covers 'index'; st is         *)
(* [p, first, prev, span].  'span' and 'oplen' are those of the opcode at  *)
(* st.p.                                                                   *)
SparseLocateOpcode(index, st, span, oplen) ==
    IF index <= st.first + span - 1
    THEN [st EXCEPT !.span = span, !.done = TRUE]
    ELSE [p |-> st.p + oplen, first |-> st.first + span, prev |-> st.p,
          span |-> span, done |-> FALSE]

SparseLocateStep(s, index, st, q) ==
    IF q # st.p THEN st
    ELSE SparseLocateOpcode(index, st,
             IF HLL_SPARSE_IS_ZERO(s, q) THEN HLL_SPARSE_ZERO_LEN(s, q)
             ELSE IF HLL_SPARSE_IS_VAL(s, q) THEN HLL_SPARSE_VAL_LEN(s, q)
             ELSE HLL_SPARSE_XZERO_LEN(s, q),
             IF ~HLL_SPARSE_IS_ZERO(s, q) /\ ~HLL_SPARSE_IS_VAL(s, q) THEN 2 ELSE 1)

SparseLocate(s, index) ==
    Iterate(LAMBDA st, q : SparseLocateStep(s, index, st, q),
            [p |-> HLL_HDR_SIZE, first |-> 0, prev |-> NULL, span |-> 0,
             done |-> FALSE],
            HLL_HDR_SIZE, Len(s) - 1)

(* A faulty SparseZeroRun: a run of more than HLL_SPARSE_ZERO_MAX_LEN      *)
(* zeroes written as a ZERO opcode.                                        *)
MutZeroRunNeverXzero(len) == HLL_SPARSE_ZERO_SET(len)

(* A faulty SparseZeroRun: every run of zeroes is written as an XZERO.      *)
MutZeroRunAlwaysXzero(len) == HLL_SPARSE_XZERO_SET(len)

(* Case D: the sequence of 1..3 opcodes written into seq[5].               *)
SparseZeroRun(len) ==
    IF len > HLL_SPARSE_ZERO_MAX_LEN THEN HLL_SPARSE_XZERO_SET(len)
    ELSE HLL_SPARSE_ZERO_SET(len)

SparseSplitSeq(s, p, is_val, index, first, last, count) ==
    IF ~is_val
    THEN (IF index # first THEN SparseZeroRun(index - first) ELSE <<>>)
         \o HLL_SPARSE_VAL_SET(count, 1)
         \o (IF index # last THEN SparseZeroRun(last - index) ELSE <<>>)
    ELSE LET curval == HLL_SPARSE_VAL_VALUE(s, p)
         IN  (IF index # first THEN HLL_SPARSE_VAL_SET(curval, index - first)
              ELSE <<>>)
             \o HLL_SPARSE_VAL_SET(count, 1)
             \o (IF index # last THEN HLL_SPARSE_VAL_SET(curval, last - index)
                 ELSE <<>>)

(* A faulty SparseSplice: the length is adjusted only when there is a tail *)
(* to move.                                                                *)
MutSpliceLengthOnlyOnMove(s, p, next, seq, deltalen) ==
    LET tail == IF next # NULL THEN SubSeq(s, next + 1, Len(s)) ELSE <<>>
    IN  SubSeq(SubSeq(s, 1, p) \o seq \o tail \o <<0>>, 1,
               IF next # NULL THEN Len(s) + deltalen ELSE Len(s))

(* Step 3: memmove of the tail, sdsIncrLen(deltalen), memcpy of seq.       *)
SparseSplice(s, p, next, seq, deltalen) ==
    LET tail == IF next # NULL THEN SubSeq(s, next + 1, Len(s)) ELSE <<>>
    IN  SubSeq(SubSeq(s, 1, p) \o seq \o tail, 1, Len(s) + deltalen)

(* HLL_SPARSE_VAL_SET(p+1, v1, len); memmove(p, p+1, end-p); sdsIncrLen(-1) *)
SparseMergeTwo(s, p, op) ==
    SubSeq(s, 1, p) \o <<op>> \o SubSeq(s, p + 3, Len(s))

(* Step 4: merge adjacent VAL opcodes, scanning up to 'scanlen' opcodes.   *)
RECURSIVE SparseMerge(_, _, _)
SparseMerge(s, p, scanlen) ==
    IF p < Len(s) /\ scanlen # 0
    THEN IF HLL_SPARSE_IS_XZERO(s, p) THEN SparseMerge(s, p + 2, scanlen - 1)
         ELSE IF HLL_SPARSE_IS_ZERO(s, p) THEN SparseMerge(s, p + 1, scanlen - 1)
         ELSE IF /\ p + 1 < Len(s)
                 /\ HLL_SPARSE_IS_VAL(s, p + 1)
                 /\ HLL_SPARSE_VAL_VALUE(s, p) = HLL_SPARSE_VAL_VALUE(s, p + 1)
                 /\ HLL_SPARSE_VAL_LEN(s, p) + HLL_SPARSE_VAL_LEN(s, p + 1)
                        <= HLL_SPARSE_VAL_MAX_LEN
         THEN SparseMerge(SparseMergeTwo(s, p,
                              HLL_SPARSE_VAL_SET(HLL_SPARSE_VAL_VALUE(s, p),
                                  HLL_SPARSE_VAL_LEN(s, p)
                                  + HLL_SPARSE_VAL_LEN(s, p + 1))[1]),
                          p, scanlen - 1)
         ELSE SparseMerge(s, p + 1, scanlen - 1)
    ELSE s

(* A faulty SparseUpdated: step 4 looks at one opcode only.                 *)
MutSparseUpdatedScansOne(s, prev, case, deltalen) ==
    [ret      |-> 1,
     value    |-> HLL_INVALIDATE_CACHE(
                      SparseMerge(s, IF prev # NULL THEN prev ELSE HLL_HDR_SIZE, 1)),
     case     |-> case,
     deltalen |-> deltalen,
     dense_retval |-> NULL, conv |-> <<>>]

(* The label 'updated': step 4, then the cache is invalidated; returns 1.  *)
SparseUpdated(s, prev, case, deltalen) ==
    [ret      |-> 1,
     value    |-> HLL_INVALIDATE_CACHE(
                      SparseMerge(s, IF prev # NULL THEN prev ELSE HLL_HDR_SIZE, 5)),
     case     |-> case,
     deltalen |-> deltalen,
     dense_retval |-> NULL, conv |-> <<>>]

(* The label 'promote': convert, then hllDenseAdd; dense_retval is what    *)
(* ASSERT(dense_retval == 1) tests, conv what hllSparseToDense left in     *)
(* *value (<<>> on the paths that do not convert).                         *)
SparsePromoteAdd(conv, add, case, deltalen) ==
    [ret |-> add.ret, value |-> add.value, case |-> case,
     deltalen |-> deltalen, dense_retval |-> add.ret, conv |-> conv]

SparsePromoteConv(s, h, case, deltalen, conv) ==
    IF conv.ret = -1
    THEN [ret |-> -1, value |-> s, case |-> case, deltalen |-> deltalen,
          dense_retval |-> NULL, conv |-> <<>>]
    ELSE SparsePromoteAdd(conv.value, hllDenseAdd(conv.value, h), case, deltalen)

SparsePromote(s, h, case, deltalen) ==
    SparsePromoteConv(s, h, case, deltalen, hllSparseToDense(s))

(* A faulty SparseAddOpcode: case A is left out, so a VAL run whose value   *)
(* is not below count is split (or rewritten) like one that is.            *)
MutSparseAddOpcodeNoCaseA(s, h, max_bytes, count, p, prev, next, kind, runlen, seq, deltalen) ==
    IF kind = "val" /\ runlen = 1
    THEN SparseUpdated(SetByteAt(s, p, HLL_SPARSE_VAL_SET(count, 1)[1]),
                       prev, "B", 0)
    ELSE IF kind = "zero" /\ runlen = 1
    THEN SparseUpdated(SetByteAt(s, p, HLL_SPARSE_VAL_SET(count, 1)[1]),
                       prev, "C", 0)
    ELSE IF deltalen > 0 /\ Len(s) + deltalen > max_bytes
    THEN SparsePromote(s, h, "promote_size", deltalen)
    ELSE SparseUpdated(SparseSplice(s, p, next, seq, deltalen),
                       prev, "D", deltalen)

(* A faulty SparseAddOpcode: step 3 compares the length of the payload,    *)
(* the header left out, with hll_sparse_max_bytes.                         *)
MutSparseAddOpcodePayload(s, h, max_bytes, count, p, prev, next, kind, runlen, seq, deltalen) ==
    IF kind = "val" /\ HLL_SPARSE_VAL_VALUE(s, p) >= count
    THEN [ret |-> 0, value |-> s, case |-> "A", deltalen |-> 0,
          dense_retval |-> NULL, conv |-> <<>>]
    ELSE IF kind = "val" /\ runlen = 1
    THEN SparseUpdated(SetByteAt(s, p, HLL_SPARSE_VAL_SET(count, 1)[1]),
                       prev, "B", 0)
    ELSE IF kind = "zero" /\ runlen = 1
    THEN SparseUpdated(SetByteAt(s, p, HLL_SPARSE_VAL_SET(count, 1)[1]),
                       prev, "C", 0)
    ELSE IF deltalen > 0 /\ (Len(s) - HLL_HDR_SIZE) + deltalen > max_bytes
    THEN SparsePromote(s, h, "promote_size", deltalen)
    ELSE SparseUpdated(SparseSplice(s, p, next, seq, deltalen),
                       prev, "D", deltalen)

(* Steps 2 and 3, for the opcode at p: 'kind' is "zero", "xzero" or "val",  *)
(* 'runlen' its run length, 'seq' the opcodes of case D that replace it.   *)
SparseAddOpcode(s, h, max_bytes, count, p, prev, next, kind, runlen, seq, deltalen) ==
    IF kind = "val" /\ HLL_SPARSE_VAL_VALUE(s, p) >= count
    THEN [ret |-> 0, value |-> s, case |-> "A", deltalen |-> 0,
          dense_retval |-> NULL, conv |-> <<>>]
    ELSE IF kind = "val" /\ runlen = 1
    THEN SparseUpdated(SetByteAt(s, p, HLL_SPARSE_VAL_SET(count, 1)[1]),
                       prev, "B", 0)
    ELSE IF kind = "zero" /\ runlen = 1
    THEN SparseUpdated(SetByteAt(s, p, HLL_SPARSE_VAL_SET(count, 1)[1]),
                       prev, "C", 0)
    ELSE IF deltalen > 0 /\ Len(s) + deltalen > max_bytes
    THEN SparsePromote(s, h, "promote_size", deltalen)
    ELSE SparseUpdated(SparseSplice(s, p, next, seq, deltalen),
                       prev, "D", deltalen)

SparseOpcodeKind(s, p) ==
    IF HLL_SPARSE_IS_ZERO(s, p) THEN "zero"
    ELSE IF HLL_SPARSE_IS_XZERO(s, p) THEN "xzero"
    ELSE "val"

SparseOpcodeRunlen(s, p) ==
    IF HLL_SPARSE_IS_ZERO(s, p) THEN HLL_SPARSE_ZERO_LEN(s, p)
    ELSE IF HLL_SPARSE_IS_XZERO(s, p) THEN HLL_SPARSE_XZERO_LEN(s, p)
    ELSE HLL_SPARSE_VAL_LEN(s, p)

(* 'next' of step 1: the opcode after p, or NULL at the end.               *)
SparseNext(s, p) ==
    IF (IF HLL_SPARSE_IS_XZERO(s, p) THEN p + 2 ELSE p + 1) >= Len(s) THEN NULL
    ELSE IF HLL_SPARSE_IS_XZERO(s, p) THEN p + 2 ELSE p + 1

SparseAddSeq(s, h, max_bytes, count, p, prev, kind, seq) ==
    SparseAddOpcode(s, h, max_bytes, count, p, prev, SparseNext(s, p), kind,
                    SparseOpcodeRunlen(s, p), seq,
                    Len(seq) - (IF kind = "xzero" THEN 2 ELSE 1))

(* After step 1: 'loc' is what the loop of step 1 found.                   *)
SparseAddLocated(s, h, max_bytes, index, count, loc) ==
    IF loc.span = 0
    THEN [ret |-> -1, value |-> s, case |-> "invalid", deltalen |-> 0,
          dense_retval |-> NULL, conv |-> <<>>]
    ELSE SparseAddSeq(s, h, max_bytes, count, loc.p, loc.prev,
                      SparseOpcodeKind(s, loc.p),
                      SparseSplitSeq(s, loc.p, SparseOpcodeKind(s, loc.p) = "val", index,
                                     loc.first, loc.first + loc.span - 1, count))

(* A faulty SparseAddIndexed: no promotion on count >                     *)
(* HLL_SPARSE_VAL_MAX_VALUE.                                               *)
MutSparseAddNoValuePromote(s, h, max_bytes, index, count) ==
    SparseAddLocated(s, h, max_bytes, index, count, SparseLocate(s, index))

SparseAddIndexed(s, h, max_bytes, index, count) ==
    IF count > HLL_SPARSE_VAL_MAX_VALUE
    THEN SparsePromote(s, h, "promote_value", 0)
    ELSE SparseAddLocated(s, h, max_bytes, index, count,
                          SparseLocate(s, index))

(* [ret, value, case, deltalen, dense_retval, conv]: ret and value are the *)
(* function's result and *value; case names the path taken.                *)
hllSparseAdd(s, h, max_bytes) ==
    SparseAddIndexed(s, h, max_bytes, hllPatLen(h).index, hllPatLen(h).count)

(* hllAdd: [ret, value, ...]; a sparse add copies its result back into     *)
(* 'value' only when retval > 0.                                           *)
AddDenseResult(r) ==
    [ret |-> r.ret, value |-> r.value, case |-> "dense", deltalen |-> 0,
     dense_retval |-> NULL, conv |-> <<>>]

AddSparseResult(value, r) ==
    IF r.ret > 0 THEN r ELSE [r EXCEPT !.value = value]

hllAdd(value, h, max_bytes) ==
    IF Encoding(value) = HLL_DENSE
    THEN AddDenseResult(hllDenseAdd(value, h))
    ELSE IF Encoding(value) = HLL_SPARSE
    THEN AddSparseResult(value, hllSparseAdd(value, h, max_bytes))
    ELSE [ret |-> -1, value |-> value, case |-> "encoding", deltalen |-> 0,
          dense_retval |-> NULL, conv |-> <<>>]

----------------------------------------------------------------------------
(* The estimator.  SUM(2^-reg) is kept exactly, as the number 'ez' of zero *)
(* registers and the bag 'pe' of the non-zero register values: the sum is  *)
(* ez + the sum of 2^-v over pe.                                           *)

(* A faulty SparseSumStep: PE[regval] is added once for a VAL opcode,       *)
(* whatever its run length.                                                *)
MutSparseSumStepOnce(s, st, q) ==
    IF q # st.p THEN st
    ELSE IF HLL_SPARSE_IS_ZERO(s, q)
    THEN [st EXCEPT !.p = q + 1, !.idx = @ + HLL_SPARSE_ZERO_LEN(s, q),
                    !.ez = @ + HLL_SPARSE_ZERO_LEN(s, q)]
    ELSE IF HLL_SPARSE_IS_XZERO(s, q)
    THEN [st EXCEPT !.p = q + 2, !.idx = @ + HLL_SPARSE_XZERO_LEN(s, q),
                    !.ez = @ + HLL_SPARSE_XZERO_LEN(s, q)]
    ELSE [st EXCEPT !.p = q + 1, !.idx = @ + HLL_SPARSE_VAL_LEN(s, q),
                    !.pe = @ (+) (HLL_SPARSE_VAL_VALUE(s, q) :> 1)]

(* The body of the loop of hllSparseSum, for the opcode at q = st.p; st is *)
(* [p, idx, ez, pe].                                                       *)
SparseSumStep(s, st, q) ==
    IF q # st.p THEN st
    ELSE IF HLL_SPARSE_IS_ZERO(s, q)
    THEN [st EXCEPT !.p = q + 1, !.idx = @ + HLL_SPARSE_ZERO_LEN(s, q),
                    !.ez = @ + HLL_SPARSE_ZERO_LEN(s, q)]
    ELSE IF HLL_SPARSE_IS_XZERO(s, q)
    THEN [st EXCEPT !.p = q + 2, !.idx = @ + HLL_SPARSE_XZERO_LEN(s, q),
                    !.ez = @ + HLL_SPARSE_XZERO_LEN(s, q)]
    ELSE [st EXCEPT !.p = q + 1, !.idx = @ + HLL_SPARSE_VAL_LEN(s, q),
                    !.pe = @ (+) (HLL_SPARSE_VAL_VALUE(s, q)
                                  :> HLL_SPARSE_VAL_LEN(s, q))]

(* if (idx != HLL_REGISTERS && invalid) *invalid = 1;                      *)
SparseSumResult(st) ==
    [ez |-> st.ez, pe |-> st.pe, invalid |-> st.idx # HLL_REGISTERS]

(* hllSparseSum: [ez, pe, invalid]; invalid is what *invalid is set to.    *)
hllSparseSum(s) ==
    SparseSumResult(
        Iterate(LAMBDA st, q : SparseSumStep(s, st, q),
                [p |-> HLL_HDR_SIZE, idx |-> 0, ez |-> 0, pe |-> EmptyBag,
                 done |-> FALSE],
                HLL_HDR_SIZE, Len(s) - 1))

(* One iteration of the unrolled loop of hllDenseSum: r0..r15 from the     *)
(* twelve bytes r[0..11] of group j.                                       *)
DenseGroupRegs(s, j) ==
    LET r(k) == ByteAt(s, HLL_HDR_SIZE + 12 * j + k)
        quad(a) ==
            <<BitAnd(r(a), 63),
              BitAnd(BitOr(Shr(r(a), 6), Shl(r(a + 1), 2)), 63),
              BitAnd(BitOr(Shr(r(a + 1), 4), Shl(r(a + 2), 4)), 63),
              BitAnd(Shr(r(a + 2), 2), 63)>>
    IN  quad(0) \o quad(3) \o quad(6) \o quad(9)

Zero12 == ZeroBytes(12)
Zero16 == ZeroBytes(16)
Zero768 == ZeroBytes(768)
Zero1024 == ZeroBytes(1024)

(* The groups of the dense payload holding a non-zero byte.  Every r_k of  *)
(* a group is computed from that group's twelve bytes alone, so a group    *)
(* of zero bytes gives sixteen zero registers.                             *)
(* The set is computed block by block (64 groups, 768 bytes, at a time):   *)
(* a block of zero bytes holds no such group.                              *)
DenseNonZeroGroups(s) ==
    LET blocks == {b \in 0..(HLL_REGISTERS \div 1024 - 1) :
                      SubSeq(s, HLL_HDR_SIZE + 768 * b + 1,
                                HLL_HDR_SIZE + 768 * b + 768) # Zero768}
    IN  {j \in UNION {64 * b .. 64 * b + 63 : b \in blocks} :
            SubSeq(s, HLL_HDR_SIZE + 12 * j + 1, HLL_HDR_SIZE + 12 * j + 12)
                # Zero12}

(* if (r_k == 0) ez++, and PE[r_k] is added, for the sixteen r_k of a group. *)
GroupZeros(regs) == Cardinality({k \in 1..16 : regs[k] = 0})
GroupBag(regs) ==
    [v \in {regs[k] : k \in 1..16} \ {0} |->
        Cardinality({k \in 1..16 : regs[k] = v})]

RECURSIVE DenseSumGroups(_, _, _, _)
RECURSIVE DenseSumGroup(_, _, _, _, _)
DenseSumGroups(s, groups, ez, pe) ==
    IF groups = {} THEN [ez |-> ez, pe |-> pe, invalid |-> FALSE]
    ELSE DenseSumGroup(s, groups \ {CHOOSE g \in groups : TRUE}, ez, pe,
                       DenseGroupRegs(s, CHOOSE g \in groups : TRUE))

DenseSumGroup(s, groups, ez, pe, regs) ==
    DenseSumGroups(s, groups, ez + GroupZeros(regs), pe (+) GroupBag(regs))

DenseSumOver(s, groups) ==
    DenseSumGroups(s, groups,
                   16 * (HLL_REGISTERS \div 16 - Cardinality(groups)), EmptyBag)

(* hllDenseSum: [ez, pe, invalid]; the dense sum never sets *invalid.      *)
hllDenseSum(s) == DenseSumOver(s, DenseNonZeroGroups(s))

(* The least ez for which the model decides 'E < m * 2.5': the sum is at   *)
(* least ez, and alpha * m / 2.5 = 4726.8..., so with ez >= 4727 the raw   *)
(* estimate alpha * m * m / sum is below m * 2.5.                          *)
LinearMinZeros == 4727

(* (uint64_t)(m * log(m / ez)) equals m - ez as long as m - ez <= 180:     *)
(* n <= -m * ln(1 - n/m) < n + 1 for n <= 180 and m = 16384.               *)
LinearExactRange == 180

(* A faulty CountEstimate: the estimate of the linear-counting range is    *)
(* one too large.                                                          *)
MutCountEstimatePlusOne(ez) ==
    CASE /\ ez # 0
         /\ ez >= LinearMinZeros
         /\ HLL_REGISTERS - ez <= LinearExactRange
         -> HLL_REGISTERS - ez + 1

(* hllCount: [card, invalid].  The model computes the estimate in the      *)
(* linear-counting range only; outside it no case applies.                 *)
CountEstimate(ez) ==
    CASE /\ ez # 0
         /\ ez >= LinearMinZeros
         /\ HLL_REGISTERS - ez <= LinearExactRange
         -> HLL_REGISTERS - ez

CountFromSum(sum) ==
    IF sum.invalid THEN [card |-> 0, invalid |-> TRUE]
    ELSE [card |-> CountEstimate(sum.ez), invalid |-> FALSE]

(* A faulty CountCorrection: the second test is an 'if', not an 'else if',  *)
(* so it is made on the linear-counting estimate as well (m * log(m / ez)  *)
(* is below 72000 from ez = 203 on).                                       *)
MutCountCorrectionTwoIfs(E, ez) ==
    IF 2 * E < 5 * HLL_REGISTERS /\ ez # 0
    THEN [linear |-> TRUE, bias |-> ez >= 203, of |-> ez]
    ELSE IF HLL_REGISTERS = 16384 /\ E < 72000
    THEN [linear |-> FALSE, bias |-> TRUE, of |-> E]
    ELSE [linear |-> FALSE, bias |-> FALSE, of |-> E]

(* The two corrections of hllCount, applied to the raw estimate E (taken   *)
(* as an integer) and ez: [linear, bias, of].  With 'linear' the result is *)
(* (uint64_t)(m * log(m / of)), with 'bias' it is (uint64_t)(of - of *     *)
(* (bias(of) / 100)), with neither (uint64_t) of.                          *)
CountCorrection(E, ez) ==
    IF 2 * E < 5 * HLL_REGISTERS /\ ez # 0
    THEN [linear |-> TRUE, bias |-> FALSE, of |-> ez]
    ELSE IF HLL_REGISTERS = 16384 /\ E < 72000
    THEN [linear |-> FALSE, bias |-> TRUE, of |-> E]
    ELSE [linear |-> FALSE, bias |-> FALSE, of |-> E]

(* hllRawSum: [ez, pe, invalid], over the uint8_t registers that follow the *)
(* header of 's' (encoding HLL_RAW).  A word of eight zero bytes adds 8 to  *)
(* ez; of the bytes of another word each zero byte adds 1 to ez and each    *)
(* other byte PE[byte].  Sixteen registers (two words) are taken at a time. *)
RECURSIVE RawSumGroups(_, _, _, _)
RawSumGroups(max, groups, ez, pe) ==
    IF groups = {} THEN [ez |-> ez, pe |-> pe, invalid |-> FALSE]
    ELSE RawSumGroups(max, groups \ {CHOOSE g \in groups : TRUE},
             ez + GroupZeros(SubSeq(max, 16 * (CHOOSE g \in groups : TRUE) + 1,
                                    16 * (CHOOSE g \in groups : TRUE) + 16)),
             pe (+) GroupBag(SubSeq(max, 16 * (CHOOSE g \in groups : TRUE) + 1,
                                    16 * (CHOOSE g \in groups : TRUE) + 16)))

RawSumOver(max, groups) ==
    RawSumGroups(max, groups,
                 16 * (HLL_REGISTERS \div 16 - Cardinality(groups)), EmptyBag)

hllRawSum(s) ==
    RawSumOver(SubSeq(s, HLL_HDR_SIZE + 1, Len(s)),
               {g \in 0..(HLL_REGISTERS \div 16 - 1) :
                   SubSeq(s, HLL_HDR_SIZE + 16 * g + 1, HLL_HDR_SIZE + 16 * g + 16)
                       # Zero16})

(* An encoding other than these three ends in abort(): no case applies.    *)
hllCount(s) ==
    CountFromSum(CASE Encoding(s) = HLL_DENSE -> hllDenseSum(s)
                   [] Encoding(s) = HLL_SPARSE -> hllSparseSum(s)
                   [] Encoding(s) = HLL_RAW -> hllRawSum(s))

----------------------------------------------------------------------------
(* hllMerge: max[i] = MAX(max[i], hll[i]).  'max' is a tuple of            *)
(* HLL_REGISTERS bytes.                                                    *)

(* A faulty MergeMax: the register is stored without the comparison.       *)
MutMergeMaxOverwrites(max, i, val) == SetByteAt(max, i, val)

(* if (val > max[i]) max[i] = val;                                         *)
MergeMax(max, i, val) ==
    IF val > ByteAt(max, i) THEN SetByteAt(max, i, val) ELSE max

RECURSIVE MergeValRun(_, _, _, _)
MergeValRun(max, i, runlen, regval) ==
    IF runlen = 0 THEN max
    ELSE MergeValRun(MergeMax(max, i, regval), i + 1, runlen - 1, regval)

(* The body of the sparse loop, for the opcode at q = st.p; st is          *)
(* [max, p, i, top]; top is one more than the highest i of a max[i] the    *)
(* loop read or wrote (0 when it did neither).                             *)
MergeSparseStep(hll, st, q) ==
    IF q # st.p THEN st
    ELSE IF HLL_SPARSE_IS_ZERO(hll, q)
    THEN [st EXCEPT !.p = q + 1, !.i = @ + HLL_SPARSE_ZERO_LEN(hll, q)]
    ELSE IF HLL_SPARSE_IS_XZERO(hll, q)
    THEN [st EXCEPT !.p = q + 2, !.i = @ + HLL_SPARSE_XZERO_LEN(hll, q)]
    ELSE [st EXCEPT !.p = q + 1, !.i = @ + HLL_SPARSE_VAL_LEN(hll, q),
                    !.top = Max2(@, st.i + HLL_SPARSE_VAL_LEN(hll, q)),
                    !.max = MergeValRun(@, st.i, HLL_SPARSE_VAL_LEN(hll, q),
                                        HLL_SPARSE_VAL_VALUE(hll, q))]

(* if (i != HLL_REGISTERS) return -1;                                      *)
MergeSparseResult(st) ==
    [ret |-> IF st.i # HLL_REGISTERS THEN -1 ELSE 0, max |-> st.max]

MergeSparseScan(hll, max) ==
    Iterate(LAMBDA st, q : MergeSparseStep(hll, st, q),
            [max |-> max, p |-> HLL_HDR_SIZE, i |-> 0, top |-> 0, done |-> FALSE],
            HLL_HDR_SIZE, Len(hll) - 1)

MergeSparseLoop(hll, max) == MergeSparseResult(MergeSparseScan(hll, max))

(* The body of the dense loop, for register i; st is [max].                *)
MergeDenseStep(hll, st, i) ==
    [st EXCEPT !.max = MergeMax(@, i, HLL_DENSE_GET_REGISTER(hll, i))]

(* The dense loop over the registers of the groups 'groups': a register    *)
(* read as 0 never exceeds max[i], so only the registers of the groups     *)
(* holding a non-zero byte are visited.                                    *)
RECURSIVE MergeDenseGroups(_, _, _)
MergeDenseGroups(hll, st, groups) ==
    IF groups = {} THEN st
    ELSE MergeDenseGroups(hll,
             Iterate(LAMBDA t, i : MergeDenseStep(hll, t, i), st,
                     16 * (CHOOSE g \in groups : TRUE),
                     16 * (CHOOSE g \in groups : TRUE) + 15),
             groups \ {CHOOSE g \in groups : TRUE})

(* [ret, max].                                                             *)
hllMerge(max, hll) ==
    IF Encoding(hll) = HLL_DENSE
    THEN [ret |-> 0,
          max |-> MergeDenseGroups(hll, [max |-> max, done |-> FALSE],
                                   DenseNonZeroGroups(hll)).max]
    ELSE MergeSparseLoop(hll, max)

----------------------------------------------------------------------------
(* A uint64_t cardinality is kept as four 16-bit limbs, like a hash.       *)

U64FromNat(n) == <<n % 65536, (n \div 65536) % 65536, 0, 0>>

(* (card >> (8*i)) & 0xff                                                  *)
U64Byte(c, i) == Shr(c[(i \div 2) + 1], 8 * (i % 2)) % 256

(* card = hdr->card[0] | hdr->card[1] << 8 | ... | hdr->card[7] << 56      *)
CardRead(s) ==
    [k \in 1..4 |-> BitOr(ByteAt(s, OFF_CARD + 2 * (k - 1)),
                          Shl(ByteAt(s, OFF_CARD + 2 * (k - 1) + 1), 8))]

(* hdr->card[i] = (card >> (8*i)) & 0xff, for i = 0..7                     *)
RECURSIVE CardWrite(_, _, _)
CardWrite(s, c, i) ==
    IF i = 8 THEN s
    ELSE CardWrite(SetByteAt(s, OFF_CARD + i, U64Byte(c, i)), c, i + 1)

----------------------------------------------------------------------------
(* The backend: Get and Set on the store.                                  *)

NotFound == [found |-> FALSE, value |-> <<>>]
(* int ret = Get(db, key, value): [ret, found, value]; ret is 0 and found  *)
(* is TRUE when the key holds a value, ret is ERR_NOT_EXIST when it holds  *)
(* none, and ret is the backend's error when the read fails.               *)
Get(st, key) ==
    IF get_error[key] # 0
    THEN [ret |-> get_error[key], found |-> FALSE, value |-> <<>>]
    ELSE [ret |-> IF st[key].found THEN 0 ELSE ERR_NOT_EXIST,
          found |-> st[key].found, value |-> st[key].value]
(* Set(db, key, value): the store after the call, unchanged when the call  *)
(* fails, and the value the call returns.                                  *)
Set(st, key, value) ==
    IF set_error[key] # 0 THEN st
    ELSE [st EXCEPT ![key] = [found |-> TRUE, value |-> value]]

SetRet(key) == set_error[key]

NoCard == <<0, 0, 0, 0>>

(* The record of a command: what was asked, what was replied, which keys   *)
(* were written by Set, the trace of the hllAdd calls, whether hllCount    *)
(* ran, the store before.                                                  *)
Cmd(op, key, members, srckeys, ret, card, sets, adds, counted, pre) ==
    [op |-> op, key |-> key, members |-> members, srckeys |-> srckeys,
     ret |-> ret, card |-> card, sets |-> sets, adds |-> adds,
     counted |-> counted, pre |-> pre]

----------------------------------------------------------------------------
(* Ardb::PFAdd.                                                            *)

(* What the model records of one hllAdd call.                              *)
AddTrace(r, value) ==
    [ret |-> r.ret, case |-> r.case, deltalen |-> r.deltalen,
     dense_retval |-> r.dense_retval, conv |-> r.conv,
     before |-> value, after |-> r.value]

(* The body of the loop over the members, for members[i]; st is           *)
(* [value, updated, adds], left (done) on the return of                    *)
(* ERR_CORRUPTED_HLL_VALUE.  'r' is the result of hllAdd.                  *)
PFAddMember(st, r) ==
    [done    |-> r.ret = -1,
     value   |-> r.value,
     updated |-> IF r.ret = 1 THEN st.updated + 1 ELSE st.updated,
     adds    |-> Append(st.adds, AddTrace(r, st.value))]

PFAddStep(st, members, i, max_bytes) ==
    PFAddMember(st, hllAdd(st.value, members[i], max_bytes))

PFAddLoop(value, updated, members, max_bytes) ==
    Iterate(LAMBDA st, i : PFAddStep(st, members, i, max_bytes),
            [done |-> FALSE, value |-> value, updated |-> updated, adds |-> <<>>],
            1, Len(members))

PFAddCmd(key, members, ret, sets, adds) ==
    Cmd("PFADD", key, members, <<>>, ret, NoCard, sets, adds, FALSE, store)

(* A faulty PFAddReply: the buffer is written back before the result of   *)
(* the loop is looked at.                                                  *)
MutPFAddReplySetsOnCorrupt(key, members, loop) ==
    IF loop.done
    THEN /\ store' = Set(store, key, HLL_INVALIDATE_CACHE(loop.value))
         /\ lastcmd' = PFAddCmd(key, members, ERR_CORRUPTED_HLL_VALUE, <<key>>, loop.adds)
    ELSE IF loop.updated # 0
    THEN /\ store' = Set(store, key, HLL_INVALIDATE_CACHE(loop.value))
         /\ lastcmd' = PFAddCmd(key, members, 1, <<key>>, loop.adds)
    ELSE /\ store' = store
         /\ lastcmd' = PFAddCmd(key, members, 0, <<>>, loop.adds)

(* After the loop: the reply, and the Set when a register was updated      *)
(* (int ret = Set(db, key, value); return ret == 0 ? 1 : ret).             *)
PFAddReply(key, members, loop) ==
    IF loop.done
    THEN /\ store' = store
         /\ lastcmd' = PFAddCmd(key, members, ERR_CORRUPTED_HLL_VALUE, <<>>, loop.adds)
    ELSE IF loop.updated # 0
    THEN /\ store' = Set(store, key, HLL_INVALIDATE_CACHE(loop.value))
         /\ lastcmd' = PFAddCmd(key, members,
                                IF SetRet(key) = 0 THEN 1 ELSE SetRet(key),
                                <<key>>, loop.adds)
    ELSE /\ store' = store
         /\ lastcmd' = PFAddCmd(key, members, 0, <<>>, loop.adds)

(* A faulty PFAddGot: the creation of the sketch is not counted in          *)
(* 'updated'.                                                              *)
MutPFAddGotCreateUncounted(key, members, got) ==
    IF got.found /\ ~isHLLObjectOrReply(got.value)
    THEN /\ store' = store
         /\ lastcmd' = PFAddCmd(key, members, ERR_INVALID_HLL_TYPE, <<>>, <<>>)
    ELSE PFAddReply(key, members,
                    PFAddLoop(IF got.found THEN got.value ELSE createHLLObject,
                              0, members, hll_sparse_max_bytes))

PFAddGot(key, members, got) ==
    IF got.ret # 0 /\ got.ret # ERR_NOT_EXIST
    THEN /\ store' = store
         /\ lastcmd' = PFAddCmd(key, members, ERR_INVALID_TYPE, <<>>, <<>>)
    ELSE IF got.found /\ ~isHLLObjectOrReply(got.value)
    THEN /\ store' = store
         /\ lastcmd' = PFAddCmd(key, members, ERR_INVALID_HLL_TYPE, <<>>, <<>>)
    ELSE PFAddReply(key, members,
                    PFAddLoop(IF got.found THEN got.value ELSE createHLLObject,
                              IF got.found THEN 0 ELSE 1,
                              members, hll_sparse_max_bytes))

PFAdd(key, members) ==
    /\ UNCHANGED rest
    /\ PFAddGot(key, members, Get(store, key))

----------------------------------------------------------------------------
(* Ardb::PFCountKey (PFCOUNT with one key).                                *)

PFCountCmd(key, ret, card, sets, counted) ==
    Cmd("PFCOUNT", key, <<>>, <<>>, ret, card, sets, <<>>, counted, store)

(* The cache is stale: recompute, write the cardinality back, Set (the     *)
(* value Set returns is not looked at); v = card; return 0.                *)
PFCountRecompute(key, value, c) ==
    IF c.invalid
    THEN /\ store' = store
         /\ lastcmd' = PFCountCmd(key, ERR_CORRUPTED_HLL_VALUE, NoCard, <<>>, TRUE)
    ELSE /\ store' = Set(store, key, CardWrite(value, U64FromNat(c.card), 0))
         /\ lastcmd' = PFCountCmd(key, 0, U64FromNat(c.card), <<key>>, TRUE)

(* A faulty PFCountGot: the cardinality is recomputed and written back     *)
(* whatever the flag says.                                                 *)
MutPFCountAlwaysRecompute(key, got) ==
    IF ~got.found
    THEN /\ store' = store
         /\ lastcmd' = PFCountCmd(key, 0, NoCard, <<>>, FALSE)
    ELSE IF ~isHLLObjectOrReply(got.value)
    THEN /\ store' = store
         /\ lastcmd' = PFCountCmd(key, ERR_INVALID_HLL_TYPE, NoCard, <<>>, FALSE)
    ELSE PFCountRecompute(key, got.value, hllCount(got.value))

PFCountGot(key, got) ==
    IF got.ret # 0 /\ got.ret # ERR_NOT_EXIST
    THEN /\ store' = store
         /\ lastcmd' = PFCountCmd(key, got.ret, NoCard, <<>>, FALSE)
    ELSE IF ~got.found
    THEN /\ store' = store
         /\ lastcmd' = PFCountCmd(key, 0, NoCard, <<>>, FALSE)
    ELSE IF ~isHLLObjectOrReply(got.value)
    THEN /\ store' = store
         /\ lastcmd' = PFCountCmd(key, ERR_INVALID_HLL_TYPE, NoCard, <<>>, FALSE)
    ELSE IF HLL_VALID_CACHE(got.value)
    THEN /\ store' = store
         /\ lastcmd' = PFCountCmd(key, 0, CardRead(got.value), <<>>, FALSE)
    ELSE PFCountRecompute(key, got.value, hllCount(got.value))

PFCountKey(key) ==
    /\ UNCHANGED rest
    /\ PFCountGot(key, Get(store, key))

----------------------------------------------------------------------------
(* Ardb::PFMerge.                                                          *)

(* for (uint32 j = 1; j < srckeys.size(); j++): srckeys[j] of the code is  *)
(* srckeys[j + 1] here.  [ret, max].                                       *)
RECURSIVE PFMergeSources(_, _, _, _)
RECURSIVE PFMergeSource(_, _, _, _, _)
RECURSIVE PFMergeMerged(_, _, _, _)
PFMergeSources(st, srckeys, j, max) ==
    IF j < Len(srckeys)
    THEN PFMergeSource(st, srckeys, j, max, Get(st, srckeys[j + 1]))
    ELSE [ret |-> 0, max |-> max]

PFMergeSource(st, srckeys, j, max, got) ==
    IF got.ret # 0 /\ got.ret # ERR_NOT_EXIST THEN [ret |-> got.ret, max |-> max]
    ELSE IF ~got.found THEN PFMergeSources(st, srckeys, j + 1, max)
    ELSE IF ~isHLLObjectOrReply(got.value)
    THEN [ret |-> ERR_INVALID_HLL_TYPE, max |-> max]
    ELSE PFMergeMerged(st, srckeys, j, hllMerge(max, got.value))

PFMergeMerged(st, srckeys, j, m) ==
    IF m.ret = -1 THEN [ret |-> ERR_CORRUPTED_HLL_VALUE, max |-> m.max]
    ELSE PFMergeSources(st, srckeys, j + 1, m.max)

(* for (j = 0; j < HLL_REGISTERS; j++)                                     *)
(*     HLL_DENSE_SET_REGISTER(hdr->registers, j, max[j]);                  *)
(* Registers 16g..16g+15 are exactly the bytes 12g..12g+11 of the payload, *)
(* so a group of sixteen zero entries of max clears its twelve bytes; the  *)
(* SETs of the other groups are applied one by one.                        *)
DenseSetStep(max, st, j) ==
    [st EXCEPT !.s = HLL_DENSE_SET_REGISTER(@, j, ByteAt(max, j))]

RECURSIVE DenseSetGroups(_, _, _)
DenseSetGroups(st, max, groups) ==
    IF groups = {} THEN st
    ELSE DenseSetGroups(
             Iterate(LAMBDA t, j : DenseSetStep(max, t, j), st,
                     16 * (CHOOSE g \in groups : TRUE),
                     16 * (CHOOSE g \in groups : TRUE) + 15),
             max, groups \ {CHOOSE g \in groups : TRUE})

(* The groups of sixteen entries of max holding a non-zero entry.          *)
MaxNonZeroGroups(max) ==
    {g \in UNION {64 * b .. 64 * b + 63 :
                    b \in {b \in 0..(HLL_REGISTERS \div 1024 - 1) :
                              SubSeq(max, 1024 * b + 1, 1024 * b + 1024) # Zero1024}} :
        SubSeq(max, 16 * g + 1, 16 * g + 16) # Zero16}

DenseSetAll(s, max) ==
    DenseSetGroups([s |-> SubSeq(s, 1, HLL_HDR_SIZE)
                          \o SubSeq(DenseZeroes, HLL_HDR_SIZE + 1, Len(s)),
                    done |-> FALSE],
                   max, MaxNonZeroGroups(max)).s

MaxZeroes == ZeroBytes(HLL_REGISTERS)

PFMergeCmd(destkey, srckeys, ret, sets) ==
    Cmd("PFMERGE", destkey, <<>>, srckeys, ret, NoCard, sets, <<>>, FALSE, store)

(* A faulty PFMergeWrite: the destination is stored without               *)
(* HLL_INVALIDATE_CACHE.                                                   *)
MutPFMergeWriteKeepsCache(destkey, srckeys, max, conv) ==
    IF conv.ret = -1
    THEN /\ store' = store
         /\ lastcmd' = PFMergeCmd(destkey, srckeys, ERR_CORRUPTED_HLL_VALUE, <<>>)
    ELSE /\ store' = Set(store, destkey, DenseSetAll(conv.value, max))
         /\ lastcmd' = PFMergeCmd(destkey, srckeys, 0, <<destkey>>)

(* The destination converted to dense: write the registers,               *)
(* return Set(db, destkey, hll).                                           *)
PFMergeWrite(destkey, srckeys, max, conv) ==
    IF conv.ret = -1
    THEN /\ store' = store
         /\ lastcmd' = PFMergeCmd(destkey, srckeys, ERR_CORRUPTED_HLL_VALUE, <<>>)
    ELSE /\ store' = Set(store, destkey,
                         HLL_INVALIDATE_CACHE(DenseSetAll(conv.value, max)))
         /\ lastcmd' = PFMergeCmd(destkey, srckeys, SetRet(destkey), <<destkey>>)

PFMergeDest(destkey, srckeys, src, got) ==
    IF src.ret # 0
    THEN /\ store' = store
         /\ lastcmd' = PFMergeCmd(destkey, srckeys, src.ret, <<>>)
    ELSE IF got.ret # 0 /\ got.ret # ERR_NOT_EXIST
    THEN /\ store' = store
         /\ lastcmd' = PFMergeCmd(destkey, srckeys, got.ret, <<>>)
    ELSE IF got.found /\ ~isHLLObjectOrReply(got.value)
    THEN /\ store' = store
         /\ lastcmd' = PFMergeCmd(destkey, srckeys, ERR_INVALID_HLL_TYPE, <<>>)
    ELSE PFMergeWrite(destkey, srckeys, src.max,
             hllSparseToDense(IF got.found THEN got.value ELSE createHLLObject))

PFMerge(destkey, srckeys) ==
    /\ UNCHANGED rest
    /\ PFMergeDest(destkey, srckeys,
                   PFMergeSources(store, srckeys, 1, MaxZeroes),
                   Get(store, destkey))

----------------------------------------------------------------------------
(* Ardb::PFCount.  With one key it is PFCountKey; with another number of   *)
(* keys the sketches are merged into a raw register array, which is        *)
(* counted and not stored.                                                 *)

PFCountKeysCmd(keys, ret, card, counted) ==
    Cmd("PFCOUNT_KEYS", "", <<>>, keys, ret, card, <<>>, <<>>, counted, store)

(* uint8_t max[HLL_HDR_SIZE + HLL_REGISTERS], zeroed, hdr->encoding =       *)
(* HLL_RAW, with the merged registers after the header.                    *)
RawSketch(max) == SetByteAt(ZeroBytes(HLL_HDR_SIZE), OFF_ENCODING, HLL_RAW) \o max

(* After the loop over the keys; 'm' is [ret, max].                        *)
PFCountMerged(keys, m) ==
    IF m.ret # 0 THEN PFCountKeysCmd(keys, m.ret, NoCard, FALSE)
    ELSE PFCountKeysCmd(keys, 0, U64FromNat(hllCount(RawSketch(m.max)).card), TRUE)

(* The loop over the keys is that of Ardb::PFMerge over its sources, from  *)
(* i = 0.                                                                  *)
PFCount(keys) ==
    IF Len(keys) = 1 THEN PFCountKey(keys[1])
    ELSE /\ UNCHANGED <<store, rest>>
         /\ lastcmd' = PFCountMerged(keys, PFMergeSources(store, keys, 0, MaxZeroes))

----------------------------------------------------------------------------
(* Inputs.  A member is given by the hash MurmurHash64A gives it; HashOf   *)
(* builds the hash with register index 'index' whose pattern 0..01 above   *)
(* bit HLL_P has length 'count' (count <= 50).                             *)

HashOf(index, count) ==
    LET b == HLL_P + count - 1
    IN  [k \in 1..4 |-> (IF k = 1 THEN index ELSE 0)
                        + (IF b \div 16 = k - 1 THEN 2^(b % 16) ELSE 0)]

(* The number of members of the bulk PFADD: members of pattern length 1    *)
(* falling into the registers 0..BulkMembers-1.                            *)
BulkMembers == 128
BulkList == [i \in 1..BulkMembers |-> HashOf(i - 1, 1)]

Keys == {"a", "b"}

(* hll_sparse_max_bytes: the default of the configuration, and the values  *)
(* the PFADD-only specification starts with (small ones, so that a sparse  *)
(* sketch of a few opcodes reaches the limit).                             *)
DefaultSparseMaxBytes == 3000
SparseMaxBytesChoices == {20, 22, DefaultSparseMaxBytes}

(* The doubles of the table PE, as <<numerator, log2 of the denominator>>:  *)
(* 0.0, and 1.0 / (1ULL << j).                                             *)
DoubleZero == <<0, 0>>
PowerOfHalf(j) == <<1, j>>

(* No Get fails, no thread is inside a call, no lock is held, the statics  *)
(* of hllCount are as the loader leaves them (zero), nothing was called on *)
(* its own.                                                                *)
NoCall == [fn |-> "none"]
InitRest ==
    /\ get_error = [k \in Keys |-> 0]
    /\ set_error = [k \in Keys |-> 0]
    /\ InitCache
    /\ threads = <<>>
    /\ locks = [k \in Keys |-> 0]
    /\ PE = [j \in 0..63 |-> DoubleZero]
    /\ initialized = 0
    /\ call = NoCall

NoCmd ==
    Cmd("none", "", <<>>, <<>>, 0, NoCard, <<>>, <<>>, FALSE, [k \in Keys |-> NotFound])

Init ==
    /\ store = [k \in Keys |-> NotFound]
    /\ hll_sparse_max_bytes = DefaultSparseMaxBytes
    /\ lastcmd = NoCmd
    /\ InitRest

(* The commands of the full specification: PFADD of one member or of none  *)
(* to a key, PFCOUNT of a key or of several, PFMERGE of one or two source  *)
(* keys into a key.                                                        *)
AddCmds ==
    {[key |-> "a", members |-> <<HashOf(0, 1)>>],
     [key |-> "b", members |-> <<HashOf(1, 2)>>],
     [key |-> "b", members |-> <<>>]}

MergeCmds ==
    {[destkey |-> "b", srckeys |-> <<"a">>],
     [destkey |-> "b", srckeys |-> <<"b", "a">>],
     [destkey |-> "a", srckeys |-> <<"a", "b">>]}

(* The key lists of PFCOUNT: one key, two keys in both orders, a key given  *)
(* twice.                                                                  *)
CountKeys == {<<"a">>, <<"b">>, <<"a", "b">>, <<"b", "a">>, <<"a", "a", "b">>}

Next ==
    \/ \E c \in AddCmds : PFAdd(c.key, c.members)
    \/ \E key \in Keys : PFCountKey(key)
    \/ \E c \in MergeCmds : PFMerge(c.destkey, c.srckeys)
    \/ \E keys \in CountKeys : PFCount(keys)

Spec == Init /\ [][Next]_vars

(* The PFADD-only specification, on key "a", under each configuration.     *)
InitAdd ==
    /\ store = [k \in Keys |-> NotFound]
    /\ hll_sparse_max_bytes \in SparseMaxBytesChoices
    /\ lastcmd = NoCmd
    /\ InitRest

AddLists ==
    {<<>>,
     <<HashOf(0, 1)>>, <<HashOf(1, 1)>>, <<HashOf(2, 1)>>, <<HashOf(1, 2)>>,
     <<HashOf(5000, 1)>>, <<HashOf(16383, 33)>>,
     <<HashOf(0, 1), HashOf(1, 2)>>}

NextAdd == \E members \in AddLists : PFAdd("a", members)

SpecAdd == InitAdd /\ [][NextAdd]_vars

(* The PFADD and PFCOUNT specification, on key "a": the bulk PFADD brings  *)
(* the cardinality to BulkMembers.                                         *)
CountLists ==
    {<<HashOf(0, 1)>>, <<HashOf(1, 2)>>, <<HashOf(5000, 3)>>, BulkList}

NextCount ==
    \/ \E members \in CountLists : PFAdd("a", members)
    \/ PFCountKey("a")

SpecCount == Init /\ [][NextCount]_vars

(* The specification with values under key "a" that no PF command wrote:   *)
(* the backend is shared with the string commands, so a key may hold any   *)
(* bytes.  ForeignValues are strings that fail isHLLObjectOrReply (too     *)
(* short, wrong magic, encoding 2, dense encoding with a sparse length)    *)
(* and sparse sketches with a valid header, the cache marked invalid, and  *)
(* opcodes covering 100, 0 and 16385 registers.                            *)
SparseHeader == HLL_INVALIDATE_CACHE(SubSeq(createHLLObject, 1, HLL_HDR_SIZE))

ForeignValues ==
    {SubSeq(createHLLObject, 1, 10),
     [createHLLObject EXCEPT ![1] = 88],
     SetByteAt(createHLLObject, OFF_ENCODING, 2),
     SetByteAt(createHLLObject, OFF_ENCODING, HLL_DENSE),
     SparseHeader \o HLL_SPARSE_XZERO_SET(100),
     SparseHeader,
     SparseHeader \o HLL_SPARSE_XZERO_SET(HLL_REGISTERS) \o HLL_SPARSE_ZERO_SET(1)}

InitForeign ==
    /\ store \in {[k \in Keys |-> IF k = "a" THEN v ELSE NotFound] :
                    v \in {[found |-> TRUE, value |-> f] : f \in ForeignValues}}
    /\ hll_sparse_max_bytes = DefaultSparseMaxBytes
    /\ lastcmd = NoCmd
    /\ InitRest

ForeignAddCmds ==
    {[key |-> "a", members |-> <<HashOf(0, 1)>>],
     [key |-> "a", members |-> <<HashOf(5000, 1)>>],
     [key |-> "a", members |-> <<HashOf(0, 1), HashOf(16383, 33)>>],
     [key |-> "b", members |-> <<HashOf(1, 2)>>]}

NextForeign ==
    \/ \E c \in ForeignAddCmds : PFAdd(c.key, c.members)
    \/ \E keys \in CountKeys : PFCount(keys)
    \/ \E c \in MergeCmds : PFMerge(c.destkey, c.srckeys)

SpecForeign == InitForeign /\ [][NextForeign]_vars

----------------------------------------------------------------------------
(* The specification with a backend whose Get fails for some key with an   *)
(* error other than ERR_NOT_EXIST (BackendErrors are two such codes).      *)
BackendErrors == {-6, -7}

InitBackend ==
    /\ store = [k \in Keys |-> NotFound]
    /\ hll_sparse_max_bytes = DefaultSparseMaxBytes
    /\ lastcmd = NoCmd
    /\ get_error \in {f \in [Keys -> {0} \cup BackendErrors] : \E k \in Keys : f[k] # 0}
    /\ set_error = [k \in Keys |-> 0]
    /\ InitCache
    /\ threads = <<>>
    /\ locks = [k \in Keys |-> 0]
    /\ PE = [j \in 0..63 |-> DoubleZero]
    /\ initialized = 0
    /\ call = NoCall

NextBackend ==
    \/ \E c \in AddCmds : PFAdd(c.key, c.members)
    \/ \E keys \in CountKeys : PFCount(keys)
    \/ \E c \in MergeCmds : PFMerge(c.destkey, c.srckeys)

SpecBackend == InitBackend /\ [][NextBackend]_vars

----------------------------------------------------------------------------
(* The specification of the macros and functions called on their own.      *)
(* A dense buffer is given with the NUL that follows it in memory, so that *)
(* the store of HLL_DENSE_SET_REGISTER into _p[_byte+1] is a store into    *)
(* the buffer for the last register as well: a dense sketch of zero        *)
(* registers, one whose payload bytes are all 0xff, one of mixed bytes.    *)
DenseBuffers ==
    {DenseZeroes \o <<0>>,
     [i \in 1..(HLL_DENSE_SIZE + 1) |->
         IF i <= HLL_HDR_SIZE \/ i > HLL_DENSE_SIZE THEN 0 ELSE 255],
     [i \in 1..(HLL_DENSE_SIZE + 1) |->
         IF i <= HLL_HDR_SIZE \/ i > HLL_DENSE_SIZE THEN 0 ELSE (37 * i) % 256]}

(* Registers at each of the four bit offsets, at both ends of the payload  *)
(* and in its middle.                                                      *)
SetRegnums == {0, 1, 2, 3, 4, 8190, 8191, 16380, 16381, 16382, 16383}

(* Hashes built from limbs with the low, the high, all or none of their    *)
(* bits set, and with bit HLL_P (bit 14 of the low limb) set or clear.     *)
HashLimbs == {0, 1, 16383, 16384, 32768, 65535}

(* Each call is made once, on the arguments given, from the initial state. *)
DenseSetRegister(s, regnum, val) ==
    /\ call = NoCall
    /\ call' = [fn |-> "HLL_DENSE_SET_REGISTER", s |-> s, regnum |-> regnum,
                val |-> val, result |-> HLL_DENSE_SET_REGISTER(s, regnum, val)]
    /\ UNCHANGED <<store, hll_sparse_max_bytes, lastcmd, get_error, set_error, cache, threads,
                   locks, PE, initialized>>

PatLen(h) ==
    /\ call = NoCall
    /\ call' = [fn |-> "hllPatLen", h |-> h, result |-> hllPatLen(h)]
    /\ UNCHANGED <<store, hll_sparse_max_bytes, lastcmd, get_error, set_error, cache, threads,
                   locks, PE, initialized>>

(* Valid sparse sketches for hllSparseAdd: the empty one; two whose short  *)
(* XZERO is replaced by a shorter sequence, at the end and at the start;   *)
(* VAL ZERO VAL, fused by step 4; a VAL run and a ZERO run to split.       *)
SparseBuffers ==
    {createHLLObject,
     SparseHeader \o HLL_SPARSE_XZERO_SET(HLL_REGISTERS - 1) \o HLL_SPARSE_XZERO_SET(1),
     SparseHeader \o HLL_SPARSE_XZERO_SET(1) \o HLL_SPARSE_XZERO_SET(HLL_REGISTERS - 1),
     SparseHeader \o HLL_SPARSE_VAL_SET(1, 1) \o HLL_SPARSE_ZERO_SET(1)
         \o HLL_SPARSE_VAL_SET(1, 1) \o HLL_SPARSE_XZERO_SET(HLL_REGISTERS - 3),
     SparseHeader \o HLL_SPARSE_VAL_SET(1, 4) \o HLL_SPARSE_XZERO_SET(HLL_REGISTERS - 4),
     SparseHeader \o HLL_SPARSE_ZERO_SET(64) \o HLL_SPARSE_XZERO_SET(HLL_REGISTERS - 64)}

SparseAddHashes ==
    {HashOf(index, count) : index \in {0, 1, 2, 5000, HLL_REGISTERS - 1}, count \in {1, 2}}

(* The opcode step 1 of hllSparseAdd finds for the hash, and seq[5] as     *)
(* step 2 fills it for that opcode.                                        *)
SparseAddSeqAt(s, h, loc) ==
    SparseSplitSeq(s, loc.p, SparseOpcodeKind(s, loc.p) = "val", hllPatLen(h).index,
                   loc.first, loc.first + loc.span - 1, hllPatLen(h).count)

SparseAdd(s, h, max_bytes) ==
    /\ call = NoCall
    /\ call' = [fn |-> "hllSparseAdd", s |-> s, h |-> h, max_bytes |-> max_bytes,
                p |-> SparseLocate(s, hllPatLen(h).index).p,
                seq |-> SparseAddSeqAt(s, h, SparseLocate(s, hllPatLen(h).index)),
                result |-> hllSparseAdd(s, h, max_bytes)]
    /\ UNCHANGED <<store, hll_sparse_max_bytes, lastcmd, get_error, set_error, cache, threads,
                   locks, PE, initialized>>

(* Sparse sketches with a valid header whose opcodes cover fewer or more   *)
(* than HLL_REGISTERS registers: a short XZERO; a full XZERO followed by a *)
(* ZERO, by a VAL; a VAL run that starts at the last register.             *)
MiscoveredBuffers ==
    {SparseHeader \o HLL_SPARSE_XZERO_SET(100),
     SparseHeader \o HLL_SPARSE_XZERO_SET(HLL_REGISTERS) \o HLL_SPARSE_ZERO_SET(1),
     SparseHeader \o HLL_SPARSE_XZERO_SET(HLL_REGISTERS) \o HLL_SPARSE_VAL_SET(1, 1),
     SparseHeader \o HLL_SPARSE_XZERO_SET(HLL_REGISTERS - 1) \o HLL_SPARSE_VAL_SET(2, 4)}

SparseToDense(s) ==
    /\ call = NoCall
    /\ call' = [fn |-> "hllSparseToDense", s |-> s,
                top |-> SparseToDenseLoop(s,
                            SetByteAt(SubSeq(s, 1, HLL_HDR_SIZE)
                                      \o SubSeq(DenseZeroes, HLL_HDR_SIZE + 1, HLL_DENSE_SIZE),
                                      OFF_ENCODING, HLL_DENSE)).top,
                result |-> hllSparseToDense(s)]
    /\ UNCHANGED <<store, hll_sparse_max_bytes, lastcmd, get_error, set_error, cache, threads,
                   locks, PE, initialized>>

Merge(s) ==
    /\ call = NoCall
    /\ call' = [fn |-> "hllMerge", s |-> s,
                top |-> MergeSparseScan(s, MaxZeroes).top,
                result |-> hllMerge(MaxZeroes, s)]
    /\ UNCHANGED <<store, hll_sparse_max_bytes, lastcmd, get_error, set_error, cache, threads,
                   locks, PE, initialized>>

(* Raw estimates on both sides of m * 2.5 = 40960 and of 72000, and        *)
(* numbers of zero registers.                                              *)
RawEstimates == {0, 11838, 40959, 40960, 40961, 71999, 72000, 72001, 200000}
ZeroCounts == {0, 1, 202, 203, 4727, HLL_REGISTERS}

Correction(E, ez) ==
    /\ call = NoCall
    /\ call' = [fn |-> "hllCount", E |-> E, ez |-> ez, result |-> CountCorrection(E, ez)]
    /\ UNCHANGED <<store, hll_sparse_max_bytes, lastcmd, get_error, set_error, cache, threads,
                   locks, PE, initialized>>

NextMacro ==
    \/ \E s \in DenseBuffers, regnum \in SetRegnums, val \in 0..HLL_REGISTER_MAX :
           DenseSetRegister(s, regnum, val)
    \/ \E h \in [1..4 -> HashLimbs] : PatLen(h)
    \/ \E s \in SparseBuffers, h \in SparseAddHashes,
             max_bytes \in {HLL_HDR_SIZE + 3, DefaultSparseMaxBytes} :
           SparseAdd(s, h, max_bytes)
    \/ \E s \in SparseBuffers \cup MiscoveredBuffers : SparseToDense(s)
    \/ \E s \in SparseBuffers \cup MiscoveredBuffers : Merge(s)
    \/ \E E \in RawEstimates, ez \in ZeroCounts : Correction(E, ez)

SpecMacro == Init /\ [][NextMacro]_vars

----------------------------------------------------------------------------
(* The specification of two server threads, each running one command, the  *)
(* steps of the commands interleaved.  A step is what a thread does up to  *)
(* and including one access to the backend or to the key locker: the       *)
(* construction of the KeyLockerGuard, a Get (those of the loop over the   *)
(* sources of PFMERGE, or over the keys of PFCOUNT, taken together), the   *)
(* computation after it with its Set, the return.                          *)
Threads == {1, 2}

(* The sketch PFADD stores for 'members' in a key that does not exist.     *)
SketchOf(members) ==
    HLL_INVALIDATE_CACHE(PFAddLoop(createHLLObject, 1, members,
                                   DefaultSparseMaxBytes).value)

ThreadsStore ==
    [k \in Keys |->
        [found |-> TRUE,
         value |-> IF k = "a" THEN SketchOf(<<HashOf(2, 1)>>)
                              ELSE SketchOf(<<HashOf(3, 1)>>)]]

ThreadCmd(op, key, members, srckeys) ==
    [op |-> op, key |-> key, members |-> members, srckeys |-> srckeys,
     pc |-> "start",
     got |-> [ret |-> ERR_NOT_EXIST, found |-> FALSE, value |-> <<>>],
     src |-> [ret |-> 0, max |-> <<>>]]

ThreadCmds ==
    {ThreadCmd("PFADD", "b", <<HashOf(1, 2)>>, <<>>),
     ThreadCmd("PFADD", "b", <<HashOf(0, 1)>>, <<>>),
     ThreadCmd("PFCOUNT", "b", <<>>, <<>>),
     ThreadCmd("PFMERGE", "b", <<>>, <<"a", "a">>),
     ThreadCmd("PFCOUNT_KEYS", "", <<>>, <<"a", "b">>)}

(* A faulty HoldsGuard: Ardb::PFCountKey without its KeyLockerGuard.       *)
MutGuardOnlyInPFAdd(op) == op = "PFADD"

(* The entry points that construct a KeyLockerGuard on their key:          *)
(* Ardb::PFAdd and Ardb::PFCountKey.  Ardb::PFMerge and the multi-key path *)
(* of Ardb::PFCount construct none.                                        *)
HoldsGuard(op) == op \in {"PFADD", "PFCOUNT"}

(* The entry into the command.  The constructor of KeyLockerGuard blocks   *)
(* while another thread holds the lock of the key.                         *)
Begin(t) ==
    /\ threads[t].pc = "start"
    /\ HoldsGuard(threads[t].op) => locks[threads[t].key] = 0
    /\ locks' = IF HoldsGuard(threads[t].op)
                THEN [locks EXCEPT ![threads[t].key] = t] ELSE locks
    /\ threads' = [threads EXCEPT ![t].pc = "get"]
    /\ UNCHANGED <<store, hll_sparse_max_bytes, lastcmd, get_error, set_error, cache, PE,
                   initialized, call>>

(* Get(db, key, value) of Ardb::PFAdd and Ardb::PFCountKey.                *)
GetKey(t) ==
    /\ threads[t].pc = "get"
    /\ threads[t].op \in {"PFADD", "PFCOUNT"}
    /\ threads' = [threads EXCEPT ![t].pc = "run",
                                  ![t].got = Get(store, threads[t].key)]
    /\ UNCHANGED <<store, hll_sparse_max_bytes, lastcmd, get_error, set_error, cache, locks, PE,
                   initialized, call>>

(* What Ardb::PFAdd and Ardb::PFCountKey do with the value they got.       *)
Run(t) ==
    /\ threads[t].pc = "run"
    /\ IF threads[t].op = "PFADD"
       THEN PFAddGot(threads[t].key, threads[t].members, threads[t].got)
       ELSE PFCountGot(threads[t].key, threads[t].got)
    /\ threads' = [threads EXCEPT ![t].pc = "end"]
    /\ UNCHANGED <<hll_sparse_max_bytes, get_error, set_error, cache, locks, PE, initialized, call>>

(* The loop of Ardb::PFMerge over its sources.                             *)
MergeSources(t) ==
    /\ threads[t].pc = "get"
    /\ threads[t].op = "PFMERGE"
    /\ threads' = [threads EXCEPT ![t].pc = "dest",
                       ![t].src = PFMergeSources(store, threads[t].srckeys, 1, MaxZeroes)]
    /\ UNCHANGED <<store, hll_sparse_max_bytes, lastcmd, get_error, set_error, cache, locks, PE,
                   initialized, call>>

(* Get(db, destkey, value) of Ardb::PFMerge.                               *)
MergeGetDest(t) ==
    /\ threads[t].pc = "dest"
    /\ threads' = [threads EXCEPT ![t].pc = "write",
                                  ![t].got = Get(store, threads[t].key)]
    /\ UNCHANGED <<store, hll_sparse_max_bytes, lastcmd, get_error, set_error, cache, locks, PE,
                   initialized, call>>

(* The conversion of the destination, the registers, the Set.              *)
MergeWrite(t) ==
    /\ threads[t].pc = "write"
    /\ PFMergeDest(threads[t].key, threads[t].srckeys, threads[t].src, threads[t].got)
    /\ threads' = [threads EXCEPT ![t].pc = "end"]
    /\ UNCHANGED <<hll_sparse_max_bytes, get_error, set_error, cache, locks, PE, initialized, call>>

(* The multi-key path of Ardb::PFCount.                                    *)
CountKeysRun(t) ==
    /\ threads[t].pc = "get"
    /\ threads[t].op = "PFCOUNT_KEYS"
    /\ lastcmd' = PFCountMerged(threads[t].srckeys,
                                PFMergeSources(store, threads[t].srckeys, 0, MaxZeroes))
    /\ threads' = [threads EXCEPT ![t].pc = "end"]
    /\ UNCHANGED <<store, hll_sparse_max_bytes, get_error, set_error, cache, locks, PE,
                   initialized, call>>

(* The return: the destructor of the KeyLockerGuard releases the lock.     *)
End(t) ==
    /\ threads[t].pc = "end"
    /\ locks' = [k \in Keys |-> IF locks[k] = t THEN 0 ELSE locks[k]]
    /\ threads' = [threads EXCEPT ![t].pc = "done"]
    /\ UNCHANGED <<store, hll_sparse_max_bytes, lastcmd, get_error, set_error, cache, PE,
                   initialized, call>>

InitThreads ==
    /\ store = ThreadsStore
    /\ hll_sparse_max_bytes = DefaultSparseMaxBytes
    /\ lastcmd = NoCmd
    /\ get_error = [k \in Keys |-> 0]
    /\ set_error = [k \in Keys |-> 0]
    /\ InitCache
    /\ threads \in [Threads -> ThreadCmds]
    /\ locks = [k \in Keys |-> 0]
    /\ PE = [j \in 0..63 |-> DoubleZero]
    /\ initialized = 0
    /\ call = NoCall

NextThreads ==
    \E t \in Threads :
        \/ Begin(t)
        \/ GetKey(t)
        \/ Run(t)
        \/ MergeSources(t)
        \/ MergeGetDest(t)
        \/ MergeWrite(t)
        \/ CountKeysRun(t)
        \/ End(t)

SpecThreads == InitThreads /\ [][NextThreads]_vars

----------------------------------------------------------------------------
(* The specification with a backend whose Set fails for some key: both     *)
(* keys hold a sketch whose cached cardinality is stale.                   *)
InitSetFails ==
    /\ store = ThreadsStore
    /\ hll_sparse_max_bytes = DefaultSparseMaxBytes
    /\ lastcmd = NoCmd
    /\ get_error = [k \in Keys |-> 0]
    /\ set_error \in {f \in [Keys -> {0} \cup BackendErrors] : \E k \in Keys : f[k] # 0}
    /\ InitCache
    /\ threads = <<>>
    /\ locks = [k \in Keys |-> 0]
    /\ PE = [j \in 0..63 |-> DoubleZero]
    /\ initialized = 0
    /\ call = NoCall

SpecSetFails == InitSetFails /\ [][NextBackend]_vars

----------------------------------------------------------------------------
(* The specification of the first calls of hllCount, by two threads: the   *)
(* block 'if (!initialized) { PE[0] = 1; for (...) PE[j] = ...;            *)
(* initialized = 1; }' on the function's statics.  The statics are plain   *)
(* objects read and written by both threads without synchronisation, a     *)
(* data race: the order in which the stores of one thread become visible   *)
(* to the other is not that of the program.  A thread that has run the     *)
(* block sees its own stores; the other thread sees the stores to PE in    *)
(* the order of the loop, and the store to 'initialized' at any time from  *)
(* the moment the block has run.                                           *)
(* A thread is [pc, wrote, visible, flag, read]: 'wrote' when it has run   *)
(* the block, 'visible' the number of its stores to PE the other thread    *)
(* can see, 'flag' whether its store to 'initialized' can be seen, 'read'  *)
(* the pair <<j, PE[j]>> of the entry it read for the sum.                 *)
CountCall ==
    [pc |-> "check", wrote |-> FALSE, visible |-> 0, flag |-> FALSE, read |-> <<>>]

(* The register values whose entry of PE a call reads for its sum.         *)
SumRegisters == {0, 1, HLL_REGISTER_MAX}

(* if (!initialized)                                                       *)
TestInitialized(t) ==
    /\ threads[t].pc = "check"
    /\ threads' = [threads EXCEPT ![t].pc = IF initialized = 0 THEN "init" ELSE "sum"]
    /\ UNCHANGED <<store, hll_sparse_max_bytes, lastcmd, get_error, set_error, cache, locks, PE,
                   initialized, call>>

(* The block, run by the thread: none of its stores is visible to the      *)
(* other thread yet.                                                       *)
WriteTable(t) ==
    /\ threads[t].pc = "init"
    /\ threads' = [threads EXCEPT ![t].pc = "sum", ![t].wrote = TRUE]
    /\ UNCHANGED <<store, hll_sparse_max_bytes, lastcmd, get_error, set_error, cache, locks, PE,
                   initialized, call>>

(* PE[0] = 1; PE[j] = 1.0 / (1ULL << j): the next stores become visible,   *)
(* up to and including the next entry a call reads for its sum (or the     *)
(* last one).                                                              *)
NextVisible(n) ==
    1 + CHOOSE j \in SumRegisters \cup {63} :
            /\ j >= n
            /\ \A i \in SumRegisters \cup {63} : i >= n => j <= i

StorePE(t) ==
    /\ threads[t].wrote
    /\ threads[t].visible < 64
    /\ PE' = [j \in 0..63 |->
                 IF threads[t].visible <= j /\ j < NextVisible(threads[t].visible)
                 THEN PowerOfHalf(j) ELSE PE[j]]
    /\ threads' = [threads EXCEPT ![t].visible = NextVisible(threads[t].visible)]
    /\ UNCHANGED <<store, hll_sparse_max_bytes, lastcmd, get_error, set_error, cache, locks,
                   initialized, call>>

(* initialized = 1 becomes visible.                                        *)
StoreInitialized(t) ==
    /\ threads[t].wrote
    /\ ~threads[t].flag
    /\ initialized' = 1
    /\ threads' = [threads EXCEPT ![t].flag = TRUE]
    /\ UNCHANGED <<store, hll_sparse_max_bytes, lastcmd, get_error, set_error, cache, locks, PE, call>>

(* hllDenseSum / hllSparseSum / hllRawSum: E += PE[reg] for a register of  *)
(* value j.                                                                *)
SumRead(t, j) ==
    /\ threads[t].pc = "sum"
    /\ threads' = [threads EXCEPT
                      ![t].pc = "done",
                      ![t].read = <<j, IF threads[t].wrote THEN PowerOfHalf(j) ELSE PE[j]>>]
    /\ UNCHANGED <<store, hll_sparse_max_bytes, lastcmd, get_error, set_error, cache, locks, PE,
                   initialized, call>>

InitStatics ==
    /\ store = [k \in Keys |-> NotFound]
    /\ hll_sparse_max_bytes = DefaultSparseMaxBytes
    /\ lastcmd = NoCmd
    /\ get_error = [k \in Keys |-> 0]
    /\ set_error = [k \in Keys |-> 0]
    /\ InitCache
    /\ threads = [t \in Threads |-> CountCall]
    /\ locks = [k \in Keys |-> 0]
    /\ PE = [j \in 0..63 |-> DoubleZero]
    /\ initialized = 0
    /\ call = NoCall

NextStatics ==
    \E t \in Threads :
        \/ TestInitialized(t)
        \/ WriteTable(t)
        \/ StorePE(t)
        \/ StoreInitialized(t)
        \/ \E j \in SumRegisters : SumRead(t, j)

SpecStatics == InitStatics /\ [][NextStatics]_vars

----------------------------------------------------------------------------
(* The registers a sketch holds, as the set of the pairs <<index, value>>  *)
(* of its non-zero registers.                                              *)

(* Sparse: every VAL opcode gives its value to the registers of its run.   *)
SparseRegistersStep(s, st, q) ==
    IF q # st.p THEN st
    ELSE IF HLL_SPARSE_IS_ZERO(s, q)
    THEN [st EXCEPT !.p = q + 1, !.idx = @ + HLL_SPARSE_ZERO_LEN(s, q)]
    ELSE IF HLL_SPARSE_IS_XZERO(s, q)
    THEN [st EXCEPT !.p = q + 2, !.idx = @ + HLL_SPARSE_XZERO_LEN(s, q)]
    ELSE [st EXCEPT !.p = q + 1, !.idx = @ + HLL_SPARSE_VAL_LEN(s, q),
                    !.regs = @ \cup {<<i, HLL_SPARSE_VAL_VALUE(s, q)>> :
                                 i \in st.idx .. st.idx + HLL_SPARSE_VAL_LEN(s, q) - 1}]

SparseScan(s) ==
    Iterate(LAMBDA st, q : SparseRegistersStep(s, st, q),
            [p |-> HLL_HDR_SIZE, idx |-> 0, regs |-> {}, done |-> FALSE],
            HLL_HDR_SIZE, Len(s) - 1)

SparseRegisters(s) == SparseScan(s).regs

(* The sum of the run lengths of the opcodes of a sparse sketch.           *)
SparseRunLengths(s) == SparseScan(s).idx

(* Dense: HLL_DENSE_GET_REGISTER of every register of a group that holds a *)
(* non-zero byte (the registers of the other groups read 0).               *)
DenseRegisters(s) ==
    {r \in {<<i, HLL_DENSE_GET_REGISTER(s, i)>> :
               i \in UNION {16 * j .. 16 * j + 15 : j \in DenseNonZeroGroups(s)}} :
        r[2] # 0}

Registers(s) ==
    IF Encoding(s) = HLL_DENSE THEN DenseRegisters(s) ELSE SparseRegisters(s)

(* Register i of the register set regs, and regs with register i set to v. *)
RegisterAt(regs, i) ==
    IF \E r \in regs : r[1] = i THEN (CHOOSE r \in regs : r[1] = i)[2] ELSE 0

WithRegister(regs, i, v) ==
    {r \in regs : r[1] # i} \cup (IF v = 0 THEN {} ELSE {<<i, v>>})

(* The register-wise maximum of the register sets in 'sets'.               *)
MaxRegisters(sets) ==
    {r \in UNION sets : \A q \in UNION sets : q[1] = r[1] => q[2] <= r[2]}

----------------------------------------------------------------------------
(* Properties of PFADD.                                                    *)

(* The hllAdd calls of the last command, when it was a PFADD.              *)
Adds == IF lastcmd.op = "PFADD" THEN DOMAIN lastcmd.adds ELSE {}
AddIndex(i) == hllPatLen(lastcmd.members[i]).index
AddCount(i) == hllPatLen(lastcmd.members[i]).count

(* C1: after any sequence of PFADD calls, the run lengths of the opcodes   *)
(* of a sparse sketch sum to exactly HLL_REGISTERS = 16384; so do those of *)
(* the sketch createHLLObject makes and of every sparse sketch an hllAdd   *)
(* call leaves.                                                            *)
C1_SparseRunsCoverAllRegisters ==
    /\ \A k \in Keys :
          (store[k].found /\ Encoding(store[k].value) = HLL_SPARSE)
              => SparseRunLengths(store[k].value) = 16384
    /\ \A i \in Adds :
          Encoding(lastcmd.adds[i].after) = HLL_SPARSE
              => SparseRunLengths(lastcmd.adds[i].after) = 16384

(* A PFADD has split a run: the stored sparse sketch has four opcodes or   *)
(* more.                                                                   *)
C1_Witness ==
    /\ lastcmd.op = "PFADD" /\ lastcmd.ret = 1
    /\ \E i \in Adds : lastcmd.adds[i].case = "D"
    /\ Encoding(store[lastcmd.key].value) = HLL_SPARSE
    /\ Len(store[lastcmd.key].value) >= HLL_HDR_SIZE + 5

(* C2: an hllAdd of a member with register index i and pattern length c    *)
(* leaves every register at its previous value, except register i, which   *)
(* becomes the maximum of its previous value and c; and the sketch PFADD    *)
(* leaves in the store holds the registers the last hllAdd left.           *)
C2_AddRaisesOneRegister ==
    /\ \A i \in Adds :
          lastcmd.adds[i].ret # -1
              => Registers(lastcmd.adds[i].after)
                   = WithRegister(Registers(lastcmd.adds[i].before), AddIndex(i),
                         Max2(RegisterAt(Registers(lastcmd.adds[i].before),
                                         AddIndex(i)),
                              AddCount(i)))
    /\ (Adds # {} /\ lastcmd.ret \in {0, 1})
          => Registers(store[lastcmd.key].value)
               = Registers(lastcmd.adds[Len(lastcmd.adds)].after)

(* An hllAdd has raised a register that was not 0.                         *)
C2_Witness ==
    \E i \in Adds :
        /\ lastcmd.adds[i].ret = 1
        /\ RegisterAt(Registers(lastcmd.adds[i].before), AddIndex(i)) > 0
        /\ RegisterAt(Registers(lastcmd.adds[i].after), AddIndex(i)) = AddCount(i)

(* C4: after a PFADD that returns 1, the cache-invalid flag of the stored  *)
(* sketch is set, and that flag is the most significant bit of header      *)
(* byte 15.                                                                *)
C4_FlagIsMsbOfByte15 ==
    (lastcmd.op = "PFADD" /\ lastcmd.ret = 1)
        => /\ ~HLL_VALID_CACHE(store[lastcmd.key].value)
           /\ ByteAt(store[lastcmd.key].value, 15) >= 128

(* C8: hllSparseToDense gives a dense sketch of length 16 + 12288 whose    *)
(* register r holds the value the sparse sketch gave register r; an empty  *)
(* sparse sketch gives a payload of zero bytes.                            *)
C8_SparseToDenseKeepsRegisters ==
    \A i \in Adds :
        lastcmd.adds[i].conv # <<>>
            => /\ Len(lastcmd.adds[i].conv) = 16 + 12288
               /\ Encoding(lastcmd.adds[i].conv) = HLL_DENSE
               /\ DenseRegisters(lastcmd.adds[i].conv)
                    = SparseRegisters(lastcmd.adds[i].before)
               /\ SparseRegisters(lastcmd.adds[i].before) = {}
                    => SubSeq(lastcmd.adds[i].conv, 17, 16 + 12288)
                         = ZeroBytes(12288)

(* A sparse sketch holding a non-zero register has been converted.         *)
C8_Witness ==
    \E i \in Adds :
        /\ lastcmd.adds[i].conv # <<>>
        /\ Encoding(lastcmd.adds[i].before) = HLL_SPARSE
        /\ SparseRegisters(lastcmd.adds[i].before) # {}

(* C9: a PFADD, to a sparse sketch, of a member whose pattern length c is  *)
(* above 32 returns 1 and stores a dense sketch of length 12304 in which   *)
(* the member's register holds c and every other register its previous     *)
(* value.                                                                  *)
C9_LargeCountPromotes ==
    \A i \in Adds :
        (Encoding(lastcmd.adds[i].before) = HLL_SPARSE /\ AddCount(i) > 32)
            => /\ lastcmd.adds[i].ret = 1
               /\ Encoding(lastcmd.adds[i].after) = HLL_DENSE
               /\ Len(lastcmd.adds[i].after) = 12304
               /\ RegisterAt(Registers(lastcmd.adds[i].after), AddIndex(i))
                    = AddCount(i)
               /\ WithRegister(Registers(lastcmd.adds[i].after), AddIndex(i), 0)
                    = WithRegister(Registers(lastcmd.adds[i].before), AddIndex(i), 0)
               /\ lastcmd.ret = 1
               /\ Encoding(store[lastcmd.key].value) = HLL_DENSE
               /\ Len(store[lastcmd.key].value) = 12304

(* Such a member has been added to a sparse sketch holding a non-zero      *)
(* register.                                                               *)
C9_Witness ==
    \E i \in Adds :
        /\ Encoding(lastcmd.adds[i].before) = HLL_SPARSE
        /\ AddCount(i) > 32
        /\ SparseRegisters(lastcmd.adds[i].before) # {}
        /\ lastcmd.adds[i].ret = 1

(* The hllAdd calls that reached step 3 of hllSparseAdd with deltalen > 0, *)
(* and whether call i promoted the sketch.                                 *)
GrowingAdds ==
    {i \in Adds : /\ lastcmd.adds[i].case \in {"D", "promote_size"}
                  /\ lastcmd.adds[i].deltalen > 0}
Promoted(i) ==
    /\ Encoding(lastcmd.adds[i].before) = HLL_SPARSE
    /\ Encoding(lastcmd.adds[i].after) = HLL_DENSE

(* C10, as stated: a sparse add with deltalen > 0 promotes the sketch if   *)
(* and only if the length of the sparse payload (the bytes after the       *)
(* header) would exceed hll_sparse_max_bytes.                              *)
C10_PromotesIffPayloadExceeds ==
    \A i \in GrowingAdds :
        Promoted(i)
            <=> (Len(lastcmd.adds[i].before) - 16) + lastcmd.adds[i].deltalen
                    > hll_sparse_max_bytes

(* C10, amended: a sparse add with deltalen > 0 promotes the sketch if and *)
(* only if the length of the whole sketch, its 16-byte header included,    *)
(* would exceed hll_sparse_max_bytes.                                      *)
C10_PromotesIffLengthExceeds ==
    \A i \in GrowingAdds :
        Promoted(i)
            <=> Len(lastcmd.adds[i].before) + lastcmd.adds[i].deltalen
                    > hll_sparse_max_bytes

(* A sparse add has promoted a sketch whose payload would have stayed      *)
(* within hll_sparse_max_bytes.                                            *)
C10_Witness ==
    \E i \in GrowingAdds :
        /\ Promoted(i)
        /\ (Len(lastcmd.adds[i].before) - 16) + lastcmd.adds[i].deltalen
              <= hll_sparse_max_bytes

(* The hllAdd calls that took the promotion path of hllSparseAdd and whose  *)
(* conversion succeeded.                                                   *)
PromotingAdds ==
    {i \in Adds : /\ lastcmd.adds[i].case \in {"promote_value", "promote_size"}
                  /\ lastcmd.adds[i].conv # <<>>}

(* C11: whenever hllSparseAdd takes the promotion path (on count > 32 or   *)
(* on the size threshold) and the conversion succeeds, the hllDenseAdd     *)
(* that follows returns 1: ASSERT(dense_retval == 1) does not fail.        *)
C11_PromotionAddReturnsOne ==
    \A i \in PromotingAdds :
        /\ lastcmd.adds[i].dense_retval = 1
        /\ lastcmd.adds[i].ret = 1

(* A sketch holding a non-zero register has been promoted on the size      *)
(* threshold.                                                              *)
C11_Witness ==
    \E i \in PromotingAdds :
        /\ lastcmd.adds[i].case = "promote_size"
        /\ SparseRegisters(lastcmd.adds[i].before) # {}
        /\ lastcmd.adds[i].dense_retval = 1

(* C12: a PFADD of the members of the PFADD just before it, on the same     *)
(* key, returns 0, issues no Set and leaves the store, bytes and           *)
(* registers, as the first PFADD left it.                                  *)
C12_RepeatedAddChangesNothing ==
    [][(/\ lastcmd.op = "PFADD"
        /\ lastcmd.ret \in {0, 1}
        /\ lastcmd'.op = "PFADD"
        /\ lastcmd'.key = lastcmd.key
        /\ lastcmd'.members = lastcmd.members)
           => /\ lastcmd'.ret = 0
              /\ lastcmd'.sets = <<>>
              /\ store' = store]_vars

(* A PFADD has found the register of its member at the member's pattern    *)
(* length, in a sparse sketch, and returned 0 without a Set.               *)
C12_Witness ==
    /\ lastcmd.op = "PFADD" /\ lastcmd.ret = 0 /\ lastcmd.sets = <<>>
    /\ store = lastcmd.pre
    /\ \E i \in Adds :
          /\ lastcmd.adds[i].case = "A"
          /\ RegisterAt(Registers(lastcmd.adds[i].before), AddIndex(i)) = AddCount(i)

(* The hllAdd calls of the last PFADD that changed a register.             *)
RaisingAdds ==
    {i \in Adds : Registers(lastcmd.adds[i].after) # Registers(lastcmd.adds[i].before)}

(* C13: PFADD returns 1 exactly when the key did not exist or a member      *)
(* raised a register, and then issues a Set of the key; it returns 0        *)
(* exactly when the key existed and no member changed a register, and then *)
(* issues no Set.                                                          *)
C13_ReturnsOneIffCreatedOrRaised ==
    (lastcmd.op = "PFADD" /\ lastcmd.ret \in {0, 1})
        => /\ lastcmd.ret = 1
                <=> (~lastcmd.pre[lastcmd.key].found \/ RaisingAdds # {})
           /\ lastcmd.ret = 0
                <=> (lastcmd.pre[lastcmd.key].found /\ RaisingAdds = {})
           /\ lastcmd.ret = 1
                => /\ lastcmd.sets = <<lastcmd.key>>
                   /\ store[lastcmd.key].found
                   /\ \A k \in Keys \ {lastcmd.key} : store[k] = lastcmd.pre[k]
           /\ lastcmd.ret = 0 => (lastcmd.sets = <<>> /\ store = lastcmd.pre)

(* A PFADD of two members to an existing key has returned 1: one member    *)
(* raised a register, the other changed none.                              *)
C13_Witness ==
    /\ lastcmd.op = "PFADD" /\ lastcmd.ret = 1
    /\ lastcmd.pre[lastcmd.key].found
    /\ RaisingAdds # {}
    /\ Adds \ RaisingAdds # {}

(* The last command was a PFADD of no member to a key that did not exist.  *)
EmptyCreate ==
    /\ lastcmd.op = "PFADD"
    /\ lastcmd.members = <<>>
    /\ ~lastcmd.pre[lastcmd.key].found

(* C14, as stated: PFADD of no member to a key that does not exist returns *)
(* 1 and stores 18 bytes: 'HYLL', 0x01, three zero bytes, eight zero bytes *)
(* of cached cardinality, then 0x7f 0xff.                                  *)
C14_EmptyCreateStoresZeroCard ==
    EmptyCreate
        => /\ lastcmd.ret = 1
           /\ store[lastcmd.key].found
           /\ store[lastcmd.key].value
                = <<72, 89, 76, 76, 1, 0, 0, 0, 0, 0, 0, 0, 0, 0, 0, 0, 127, 255>>

(* C14, amended: the eight bytes of cached cardinality are 0x80 followed by *)
(* seven zero bytes, PFADD having marked the cache invalid before the Set. *)
C14_EmptyCreateStoresInvalidatedCard ==
    EmptyCreate
        => /\ lastcmd.ret = 1
           /\ lastcmd.sets = <<lastcmd.key>>
           /\ store[lastcmd.key].found
           /\ store[lastcmd.key].value
                = <<72, 89, 76, 76, 1, 0, 0, 0, 128, 0, 0, 0, 0, 0, 0, 0, 127, 255>>

(* Such a PFADD has stored its 18 bytes.                                   *)
C14_Witness ==
    /\ EmptyCreate
    /\ lastcmd.ret = 1
    /\ Len(store[lastcmd.key].value) = 18

----------------------------------------------------------------------------
(* Properties of PFCOUNT and PFMERGE.                                      *)

(* Header bytes 8..15 read as a little-endian 64-bit number (in limbs).    *)
CachedCard(s) ==
    [k \in 1..4 |-> ByteAt(s, 8 + 2 * (k - 1)) + 256 * ByteAt(s, 9 + 2 * (k - 1))]

(* The last command was a single-key PFCOUNT of a sketch; the sketch it    *)
(* found and the sketch the key holds now.                                 *)
CountedSketch ==
    /\ lastcmd.op = "PFCOUNT"
    /\ lastcmd.pre[lastcmd.key].found
    /\ isHLLObjectOrReply(lastcmd.pre[lastcmd.key].value)
SketchBefore == lastcmd.pre[lastcmd.key].value
SketchAfter == store[lastcmd.key].value

(* C3: after a PFMERGE that returns OK, every register of the stored       *)
(* destination holds the maximum of that register over all the source      *)
(* sketches that exist, the first source key included.                     *)
C3_MergeTakesMaxOfAllSources ==
    (lastcmd.op = "PFMERGE" /\ lastcmd.ret = 0)
        => Registers(SketchAfter)
             = MaxRegisters({Registers(lastcmd.pre[lastcmd.srckeys[j]].value) :
                               j \in {j \in DOMAIN lastcmd.srckeys :
                                         lastcmd.pre[lastcmd.srckeys[j]].found}})

(* C5: after a single-key PFCOUNT of a sketch whose cache-invalid flag is  *)
(* set has returned v, the sketch written back has the flag clear and its  *)
(* header bytes 8..15 decode, little-endian, to v.                         *)
C5_CountLeavesValidCacheOfV ==
    (CountedSketch /\ ~HLL_VALID_CACHE(SketchBefore) /\ lastcmd.ret = 0)
        => /\ lastcmd.sets = <<lastcmd.key>>
           /\ HLL_VALID_CACHE(SketchAfter)
           /\ CachedCard(SketchAfter) = lastcmd.card

(* C6: a single-key PFCOUNT of a sketch whose cache-invalid flag is clear  *)
(* returns the little-endian value of header bytes 8..15, runs no          *)
(* estimator and issues no Set.                                            *)
C6_ValidCacheIsReturned ==
    (CountedSketch /\ HLL_VALID_CACHE(SketchBefore))
        => /\ lastcmd.ret = 0
           /\ lastcmd.card = CachedCard(SketchBefore)
           /\ ~lastcmd.counted
           /\ lastcmd.sets = <<>>
           /\ store = lastcmd.pre

(* A PFCOUNT has returned a cached cardinality other than 0.               *)
C6_Witness ==
    /\ CountedSketch
    /\ HLL_VALID_CACHE(SketchBefore)
    /\ lastcmd.card # NoCard
    /\ SparseRegisters(SketchBefore) # {}

(* C7: in every reachable state, a stored sketch whose cache is marked     *)
(* valid holds a cached cardinality equal to what the estimator gives for  *)
(* its registers.                                                          *)
C7_ValidCacheIsCurrent ==
    \A k \in Keys :
        (store[k].found /\ HLL_VALID_CACHE(store[k].value))
            => /\ ~hllCount(store[k].value).invalid
               /\ CachedCard(store[k].value)
                    = U64FromNat(hllCount(store[k].value).card)

(* A PFCOUNT has recomputed the cardinality of a dense sketch that holds   *)
(* registers, and left its cache valid.                                    *)
C7_Witness ==
    /\ CountedSketch
    /\ lastcmd.counted
    /\ Encoding(SketchAfter) = HLL_DENSE
    /\ HLL_VALID_CACHE(SketchAfter)
    /\ CachedCard(SketchAfter) # NoCard

(* C15: once the sketch stored under a key is DENSE, no PFADD, PFCOUNT or   *)
(* PFMERGE stores it as SPARSE; and a PFMERGE that succeeds leaves its     *)
(* destination stored DENSE, of length 16 + 12288, the cache marked        *)
(* invalid.                                                                *)
C15_EncodingOnlyMovesToDense ==
    /\ [][\A k \in Keys :
            (store[k].found /\ Encoding(store[k].value) = HLL_DENSE)
                => (store'[k].found /\ Encoding(store'[k].value) = HLL_DENSE)]_vars
    /\ []((lastcmd.op = "PFMERGE" /\ lastcmd.ret = 0)
            => /\ store[lastcmd.key].found
               /\ Encoding(store[lastcmd.key].value) = HLL_DENSE
               /\ Len(store[lastcmd.key].value) = 16 + 12288
               /\ ~HLL_VALID_CACHE(store[lastcmd.key].value))

(* A PFADD has raised a register of a sketch that a PFMERGE had stored      *)
(* DENSE, and stored it DENSE.                                             *)
C15_Witness ==
    /\ lastcmd.op = "PFADD" /\ lastcmd.ret = 1
    /\ lastcmd.pre[lastcmd.key].found
    /\ Encoding(lastcmd.pre[lastcmd.key].value) = HLL_DENSE
    /\ Encoding(store[lastcmd.key].value) = HLL_DENSE

(* The values the last command wrote by Set.                               *)
WrittenValues == {store[lastcmd.sets[i]].value : i \in DOMAIN lastcmd.sets}

(* C16: every value written by Set passes the validation of the header:     *)
(* length at least 16, magic 'HYLL', encoding 0 or 1 (never 255), and      *)
(* length 16 + 12288 when the encoding is 0.                               *)
C16_WrittenValuesAreValid ==
    \A v \in WrittenValues :
        /\ Len(v) >= 16
        /\ SubSeq(v, 1, 4) = <<72, 89, 76, 76>>
        /\ v[5] \in {0, 1}
        /\ v[5] = 0 => Len(v) = 16 + 12288

(* A PFCOUNT has written back a dense sketch.                              *)
C16_Witness ==
    /\ lastcmd.op = "PFCOUNT"
    /\ lastcmd.sets # <<>>
    /\ \E v \in WrittenValues : v[5] = 0

----------------------------------------------------------------------------
(* Properties of the commands on stored values that fail validation or     *)
(* whose opcodes do not cover the registers.                               *)

(* The keys the last command was given to read.                            *)
KeysGiven ==
    IF lastcmd.op \in {"PFADD", "PFCOUNT"} THEN {lastcmd.key}
    ELSE IF lastcmd.op = "PFCOUNT_KEYS"
    THEN {lastcmd.srckeys[j] : j \in DOMAIN lastcmd.srckeys}
    ELSE IF lastcmd.op = "PFMERGE"
    THEN {lastcmd.key} \cup {lastcmd.srckeys[j] : j \in DOMAIN lastcmd.srckeys}
    ELSE {}

(* The value fails the validation of the header.                           *)
FailsValidation(v) ==
    \/ Len(v) < 16
    \/ SubSeq(v, 1, 4) # <<72, 89, 76, 76>>
    \/ v[5] > 1
    \/ (v[5] = 0 /\ Len(v) # 16 + 12288)

(* C17: when a key a command is given (the key of PFADD or of single-key   *)
(* PFCOUNT, a key of multi-key PFCOUNT, a source or the destination of     *)
(* PFMERGE) holds a value that fails validation, the command returns the   *)
(* wrong-type error and issues no Set.                                     *)
C17_InvalidValueGivesWrongType ==
    (\E k \in KeysGiven :
        lastcmd.pre[k].found /\ FailsValidation(lastcmd.pre[k].value))
        => /\ lastcmd.ret = ERR_INVALID_HLL_TYPE
           /\ lastcmd.sets = <<>>
           /\ store = lastcmd.pre

(* C18: when hllAdd returns -1 for a member of a PFADD, the command returns *)
(* the corrupted-value error and issues no Set, so the storage is as it    *)
(* was before the command, whatever the earlier members did to the buffer; *)
(* a PFMERGE that returns the corrupted-value error issues no Set either.  *)
C18_CorruptionIssuesNoSet ==
    /\ (lastcmd.op = "PFADD" /\ \E i \in DOMAIN lastcmd.adds : lastcmd.adds[i].ret = -1)
           => /\ lastcmd.ret = ERR_CORRUPTED_HLL_VALUE
              /\ lastcmd.sets = <<>>
              /\ store = lastcmd.pre
    /\ (lastcmd.op = "PFMERGE" /\ lastcmd.ret = ERR_CORRUPTED_HLL_VALUE)
           => /\ lastcmd.sets = <<>>
              /\ store = lastcmd.pre

(* A PFADD of two members: the first updated the buffer, the second met    *)
(* the corruption.                                                         *)
C18_Witness ==
    /\ lastcmd.op = "PFADD"
    /\ Len(lastcmd.adds) = 2
    /\ lastcmd.adds[1].ret = 1
    /\ lastcmd.adds[1].after # lastcmd.adds[1].before
    /\ lastcmd.adds[2].ret = -1
    /\ lastcmd.ret = ERR_CORRUPTED_HLL_VALUE

(* The stored value passes validation, is sparse, and the run lengths of   *)
(* its opcodes do not sum to the number of registers.                      *)
SparseMiscovered(v) ==
    /\ v.found
    /\ ~FailsValidation(v.value)
    /\ Encoding(v.value) = HLL_SPARSE
    /\ SparseRunLengths(v.value) # HLL_REGISTERS

(* C19: a PFADD of at least one member on a sparse sketch that passes      *)
(* validation and whose run lengths do not sum to the number of registers  *)
(* returns the corrupted-value error.                                      *)
C19_MiscoveredSparseAddIsCorrupt ==
    (/\ lastcmd.op = "PFADD"
     /\ Len(lastcmd.members) >= 1
     /\ SparseMiscovered(lastcmd.pre[lastcmd.key]))
        => lastcmd.ret = ERR_CORRUPTED_HLL_VALUE

(* C20: single-key PFCOUNT on a sketch whose cache is invalid, multi-key   *)
(* PFCOUNT and PFMERGE return the corrupted-value error and write nothing  *)
(* whenever a key they are given (a counted key, a source, the             *)
(* destination) holds a sparse sketch whose run lengths do not sum to the  *)
(* number of registers.                                                    *)
C20_MiscoveredSparseReadIsCorrupt ==
    (/\ lastcmd.op \in {"PFCOUNT", "PFCOUNT_KEYS", "PFMERGE"}
     /\ \E k \in KeysGiven : SparseMiscovered(lastcmd.pre[k])
     /\ lastcmd.op = "PFCOUNT" => ~HLL_VALID_CACHE(lastcmd.pre[lastcmd.key].value))
        => /\ lastcmd.ret = ERR_CORRUPTED_HLL_VALUE
           /\ lastcmd.sets = <<>>
           /\ store = lastcmd.pre

----------------------------------------------------------------------------
(* Properties of PFCOUNT with one key and with several.                    *)

(* C22: PFCOUNT gives the cardinality 0 when none of the keys it is given  *)
(* exists, and then issues no Set and leaves the storage as it was (no key *)
(* is created); it gives the cardinality 0 also when every key that exists *)
(* holds a sketch whose registers are all zero.                            *)
C22_CountOfNothingIsZero ==
    lastcmd.op \in {"PFCOUNT", "PFCOUNT_KEYS"} =>
        /\ (\A k \in KeysGiven : ~lastcmd.pre[k].found)
              => /\ lastcmd.ret = 0
                 /\ lastcmd.card = <<0, 0, 0, 0>>
                 /\ lastcmd.sets = <<>>
                 /\ store = lastcmd.pre
        /\ (\A k \in KeysGiven :
                lastcmd.pre[k].found => Registers(lastcmd.pre[k].value) = {})
              => /\ lastcmd.ret = 0
                 /\ lastcmd.card = <<0, 0, 0, 0>>

(* A single-key PFCOUNT that computed the cardinality of the sketch a       *)
(* PFADD without members had created.                                      *)
C22_Witness ==
    /\ lastcmd.op = "PFCOUNT"
    /\ lastcmd.counted
    /\ lastcmd.pre[lastcmd.key].found
    /\ lastcmd.pre[lastcmd.key].value = HLL_INVALIDATE_CACHE(createHLLObject)
    /\ lastcmd.ret = 0
    /\ lastcmd.card = <<0, 0, 0, 0>>

(* C23: a multi-key PFCOUNT issues no Set and leaves the storage as it     *)
(* was; the cardinality it gives is the estimate for the register-wise     *)
(* maximum of the sketches of the keys that exist, a function of the set   *)
(* of the keys given (not of their order, nor of repetitions).             *)
C23_MultiCountIsEstimateOfMaximum ==
    lastcmd.op = "PFCOUNT_KEYS" =>
        /\ lastcmd.sets = <<>>
        /\ store = lastcmd.pre
        /\ lastcmd.ret = 0
        /\ lastcmd.card =
              U64FromNat(CountEstimate(HLL_REGISTERS - Cardinality(
                  MaxRegisters({Registers(lastcmd.pre[k].value) :
                                   k \in {k \in KeysGiven : lastcmd.pre[k].found}}))))

(* A PFCOUNT of a key given twice and of another key, both holding         *)
(* non-zero registers, one sketch dense and one sparse.                    *)
C23_Witness ==
    /\ lastcmd.op = "PFCOUNT_KEYS"
    /\ lastcmd.srckeys = <<"a", "a", "b">>
    /\ lastcmd.pre["a"].found /\ lastcmd.pre["b"].found
    /\ Encoding(lastcmd.pre["a"].value) # Encoding(lastcmd.pre["b"].value)
    /\ Registers(lastcmd.pre["a"].value) # {}
    /\ Registers(lastcmd.pre["b"].value) \notin {{}, Registers(lastcmd.pre["a"].value)}
    /\ lastcmd.card = <<2, 0, 0, 0>>

----------------------------------------------------------------------------
(* Properties of the opcodes of a sparse sketch.                           *)

(* The offsets at which the opcodes of the sparse sketch s start, from p.  *)
RECURSIVE OpcodeStarts(_, _)
OpcodeStarts(s, p) ==
    IF p >= Len(s) THEN {}
    ELSE {p} \cup OpcodeStarts(s, IF HLL_SPARSE_IS_XZERO(s, p) THEN p + 2 ELSE p + 1)

(* The opcode at p and the next one are VAL opcodes of the same value      *)
(* whose run lengths together fit one VAL opcode.                          *)
FusablePair(s, p) ==
    /\ p + 1 < Len(s)
    /\ HLL_SPARSE_IS_VAL(s, p)
    /\ HLL_SPARSE_IS_VAL(s, p + 1)
    /\ HLL_SPARSE_VAL_VALUE(s, p) = HLL_SPARSE_VAL_VALUE(s, p + 1)
    /\ HLL_SPARSE_VAL_LEN(s, p) + HLL_SPARSE_VAL_LEN(s, p + 1) <= 4

(* C30: after every hllAdd of a PFADD that returned 1 and left the sketch  *)
(* sparse, no two consecutive VAL opcodes of the sketch have the same      *)
(* value and a combined run length of at most 4.                           *)
C30_NoFusablePairAfterUpdate ==
    \A i \in Adds :
        (lastcmd.adds[i].ret = 1 /\ Encoding(lastcmd.adds[i].after) = HLL_SPARSE)
            => \A p \in OpcodeStarts(lastcmd.adds[i].after, HLL_HDR_SIZE) :
                   ~FusablePair(lastcmd.adds[i].after, p)

(* An add whose new VAL opcode stood between two VAL opcodes of its value: *)
(* the three were fused into one VAL of run length 3.                      *)
C30_Witness ==
    \E i \in Adds :
        /\ lastcmd.adds[i].ret = 1
        /\ lastcmd.adds[i].case = "C"
        /\ Encoding(lastcmd.adds[i].after) = HLL_SPARSE
        /\ Len(lastcmd.adds[i].after) = Len(lastcmd.adds[i].before) - 2
        /\ HLL_SPARSE_IS_VAL(lastcmd.adds[i].after, HLL_HDR_SIZE)
        /\ HLL_SPARSE_VAL_LEN(lastcmd.adds[i].after, HLL_HDR_SIZE) = 3

----------------------------------------------------------------------------
(* Properties of the commands on a backend whose Get fails.                *)

(* The keys the last command calls Get on, in the order of the calls when  *)
(* no call ends the command: PFMERGE reads its sources from the second,    *)
(* then its destination.                                                   *)
GetsOf ==
    IF lastcmd.op \in {"PFADD", "PFCOUNT"} THEN <<lastcmd.key>>
    ELSE IF lastcmd.op = "PFCOUNT_KEYS" THEN lastcmd.srckeys
    ELSE IF lastcmd.op = "PFMERGE"
    THEN SubSeq(lastcmd.srckeys, 2, Len(lastcmd.srckeys)) \o <<lastcmd.key>>
    ELSE <<>>

(* The first of these calls that fails, 0 when none does.                  *)
FirstFailedGet ==
    IF \E i \in DOMAIN GetsOf : get_error[GetsOf[i]] # 0
    THEN CHOOSE i \in DOMAIN GetsOf :
             /\ get_error[GetsOf[i]] # 0
             /\ \A j \in 1..(i - 1) : get_error[GetsOf[j]] = 0
    ELSE 0

(* C21: when a Get of PFADD, PFCOUNT or PFMERGE fails with an error other  *)
(* than ERR_NOT_EXIST, the command returns that error code and issues no   *)
(* Set.                                                                    *)
C21_GetErrorIsReturnedUnchanged ==
    FirstFailedGet # 0
        => /\ lastcmd.ret = get_error[GetsOf[FirstFailedGet]]
           /\ lastcmd.sets = <<>>
           /\ store = lastcmd.pre

----------------------------------------------------------------------------
(* Properties of the macros and functions called on their own.             *)

(* The registers whose six bits lie in the byte of register r or in the    *)
(* byte after it: the bytes HLL_DENSE_SET_REGISTER stores into.  A         *)
(* register three or more away from r starts two bytes or more away.       *)
SharingBytes(r) ==
    {q \in {q \in (r - 2)..(r + 2) : q \in 0..(HLL_REGISTERS - 1)} :
        {(q * 6) \div 8, (q * 6) \div 8 + 1}
            \cap {(r * 6) \div 8, (r * 6) \div 8 + 1} # {}}

(* C28: after HLL_DENSE_SET_REGISTER(r, v), v in 0..63, register r reads   *)
(* v, every other register reads what it read before, and the byte after   *)
(* the payload is 0 as before.  The other registers are compared one by    *)
(* one where they share a byte with register r; for the rest, the bytes    *)
(* they are read from (those before and those after the two bytes stored   *)
(* into) are compared.                                                     *)
C28_DenseSetThenGet ==
    call.fn = "HLL_DENSE_SET_REGISTER" =>
        /\ HLL_DENSE_GET_REGISTER(call.result, call.regnum) = call.val
        /\ \A q \in SharingBytes(call.regnum) \ {call.regnum} :
               HLL_DENSE_GET_REGISTER(call.result, q) = HLL_DENSE_GET_REGISTER(call.s, q)
        /\ Len(call.result) = Len(call.s)
        /\ SubSeq(call.result, 1, HLL_HDR_SIZE + (call.regnum * 6) \div 8)
              = SubSeq(call.s, 1, HLL_HDR_SIZE + (call.regnum * 6) \div 8)
        /\ SubSeq(call.result, HLL_HDR_SIZE + (call.regnum * 6) \div 8 + 3, Len(call.s))
              = SubSeq(call.s, HLL_HDR_SIZE + (call.regnum * 6) \div 8 + 3, Len(call.s))
        /\ ByteAt(call.result, HLL_DENSE_SIZE) = 0

(* The last register of a buffer of 0xff bytes set to 0: the second byte   *)
(* stored into is the byte after the payload.                              *)
C28_Witness ==
    /\ call.fn = "HLL_DENSE_SET_REGISTER"
    /\ call.regnum = HLL_REGISTERS - 1
    /\ call.val = 0
    /\ HLL_DENSE_GET_REGISTER(call.s, call.regnum) = 63
    /\ HLL_DENSE_GET_REGISTER(call.result, call.regnum) = 0
    /\ HLL_HDR_SIZE + (call.regnum * 6) \div 8 + 1 = HLL_DENSE_SIZE

(* C29: for every hash, hllPatLen gives a register index in 0..M-1 and a   *)
(* pattern length in 1..51, which fits a register of six bits.             *)
C29_PatLenInRange ==
    call.fn = "hllPatLen" =>
        /\ call.result.index \in 0..(HLL_REGISTERS - 1)
        /\ call.result.count \in 1..51
        /\ call.result.count <= 63

(* A hash whose bits 14..63 are all clear: only the bit the function sets  *)
(* ends the loop.                                                          *)
C29_Witness ==
    /\ call.fn = "hllPatLen"
    /\ call.h = <<16383, 0, 0, 0>>
    /\ call.result.index = 16383
    /\ call.result.count = 50

----------------------------------------------------------------------------
(* The keys a thread reads with Get or writes with Set in the step it      *)
(* takes from where it is.                                                 *)
Accessed(th) ==
    IF th.op \in {"PFADD", "PFCOUNT"}
    THEN IF th.pc \in {"get", "run"} THEN {th.key} ELSE {}
    ELSE IF th.op = "PFMERGE"
    THEN IF th.pc = "get" THEN {th.srckeys[j] : j \in 2..Len(th.srckeys)}
         ELSE IF th.pc \in {"dest", "write"} THEN {th.key} ELSE {}
    ELSE IF th.pc = "get" THEN {th.srckeys[j] : j \in 1..Len(th.srckeys)} ELSE {}

(* C24: every Get and every Set of PFADD, of PFCOUNT with one key or with  *)
(* several, and of PFMERGE is made by a thread that holds the per-key lock *)
(* of the key it reads or writes.                                          *)
C24_AccessesHoldTheKeyLock ==
    [][\A t \in Threads :
          threads'[t].pc # threads[t].pc =>
              \A k \in Accessed(threads[t]) : locks[k] = t]_vars

----------------------------------------------------------------------------
(* What a key holds after PFADD of 'members' alone, and after PFMERGE of   *)
(* the merged registers 'max' alone, when it held 'value' before.          *)
AfterAdd(value, members) ==
    HLL_INVALIDATE_CACHE(PFAddLoop(value, 0, members, DefaultSparseMaxBytes).value)

AfterMerge(value, max) ==
    HLL_INVALIDATE_CACHE(DenseSetAll(hllSparseToDense(value).value, max))

(* The results of the two serial orders of thread a's PFADD and thread     *)
(* m's PFMERGE on the destination.                                         *)
SerialResults(a, m) ==
    {AfterMerge(AfterAdd(ThreadsStore[a.key].value, a.members),
                PFMergeSources(ThreadsStore, m.srckeys, 1, MaxZeroes).max),
     AfterAdd(AfterMerge(ThreadsStore[a.key].value,
                         PFMergeSources(ThreadsStore, m.srckeys, 1, MaxZeroes).max),
              a.members)}

(* C25: when a PFADD on d and a PFMERGE into d have run concurrently and    *)
(* both have returned, d holds the result of one of their two serial      *)
(* orders.                                                                 *)
C25_MergeAndAddAreSerializable ==
    \A t, u \in Threads :
        (/\ threads[t].op = "PFADD" /\ threads[t].pc = "done"
         /\ threads[u].op = "PFMERGE" /\ threads[u].pc = "done"
         /\ threads[u].key = threads[t].key)
        => store[threads[t].key].value \in SerialResults(threads[t], threads[u])

----------------------------------------------------------------------------
(* Both threads run PFADD or single-key PFCOUNT (on the same key).         *)
AddAndCountOnly ==
    \A t \in Threads : threads[t].op \in {"PFADD", "PFCOUNT"}

(* The registers the members of thread t's PFADD ask for.                  *)
AskedRegisters(t) ==
    {<<hllPatLen(threads[t].members[i]).index, hllPatLen(threads[t].members[i]).count>> :
        i \in 1..Len(threads[t].members)}

(* C26: concurrent PFADD and single-key PFCOUNT on one key are serialized: *)
(* at most one of them is between its entry and its return; no update of a *)
(* PFADD is lost (when both have returned the key holds the register-wise  *)
(* maximum of what it held and of what was added); no Set lowers a         *)
(* register of the key, so the write-back of PFCOUNT never overwrites      *)
(* registers a concurrent PFADD wrote.                                     *)
C26_AddAndCountAreSerialized ==
    /\ [](AddAndCountOnly =>
            /\ \A t, u \in Threads :
                   (threads[t].pc \in {"get", "run", "end"}
                    /\ threads[u].pc \in {"get", "run", "end"}) => t = u
            /\ (\A t \in Threads : threads[t].pc = "done") =>
                   Registers(store["b"].value)
                       = MaxRegisters({Registers(ThreadsStore["b"].value)}
                                      \cup {AskedRegisters(t) : t \in Threads}))
    /\ [][AddAndCountOnly =>
            \A r \in Registers(store["b"].value) :
                RegisterAt(Registers(store'["b"].value), r[1]) >= r[2]]_vars

(* A PFADD and a PFCOUNT have both returned, the PFCOUNT having written    *)
(* the cardinality back, and the key holds what the PFADD added.           *)
C26_Witness ==
    /\ \A t \in Threads : threads[t].pc = "done"
    /\ \E t, u \in Threads :
           /\ threads[t].op = "PFADD" /\ threads[u].op = "PFCOUNT"
           /\ AskedRegisters(t) \subseteq Registers(store["b"].value)
    /\ lastcmd.op = "PFCOUNT" /\ lastcmd.sets = <<"b">>

----------------------------------------------------------------------------
(* C27: when two threads call hllCount concurrently for the first time, no *)
(* call reads an entry PE[j] other than 2^-j, and 'initialized' is seen    *)
(* set only when all 64 entries of PE are seen written.                    *)
C27_NoCallReadsAnUnwrittenEntry ==
    /\ \A t \in Threads :
           threads[t].pc = "done" =>
               threads[t].read[2] = PowerOfHalf(threads[t].read[1])
    /\ initialized = 1 => \A j \in 0..63 : PE[j] = PowerOfHalf(j)

----------------------------------------------------------------------------
(* Properties of hllSparseAdd called on its own.                           *)

(* The number of opcodes of the bytes of s from offset p on, and whether   *)
(* the last of them ends with s.                                           *)
OpCount(s, p) == Cardinality(OpcodeStarts(s, p))

EndsAtOpcode(s, p) ==
    \A q \in OpcodeStarts(s, p) :
        q + (IF HLL_SPARSE_IS_XZERO(s, q) THEN 2 ELSE 1) <= Len(s)

(* The call was an hllSparseAdd that updated the sketch and left it sparse. *)
SparseAdded ==
    /\ call.fn = "hllSparseAdd"
    /\ call.result.ret = 1
    /\ call.result.case \in {"B", "C", "D"}

(* The length of the opcode the add replaced, the difference between the   *)
(* length of the sequence written in its place and that length, and the    *)
(* number of opcodes the sequence has.                                     *)
ReplacedLen == IF HLL_SPARSE_IS_XZERO(call.s, call.p) THEN 2 ELSE 1

Delta == IF call.result.case = "D" THEN Len(call.seq) - ReplacedLen ELSE 0

WrittenOps == IF call.result.case = "D" THEN OpCount(call.seq, 0) ELSE 1

(* The number of merges of adjacent VAL opcodes: the opcodes that went     *)
(* missing between the sketch with the sequence in place and the result.   *)
MergedPairs ==
    OpCount(call.s, HLL_HDR_SIZE) - 1 + WrittenOps
        - OpCount(call.result.value, HLL_HDR_SIZE)

(* C31: after a sparse add that updated the sketch, the sketch is its      *)
(* 16-byte header followed by whole opcodes, and its length is the length  *)
(* before, plus the difference in length between the sequence written and  *)
(* the opcode replaced (also when that opcode was the last one), minus one *)
(* for every merge of adjacent VAL opcodes.                                *)
C31_LengthFollowsDeltaAndMerges ==
    SparseAdded =>
        /\ EndsAtOpcode(call.result.value, HLL_HDR_SIZE)
        /\ MergedPairs >= 0
        /\ Len(call.result.value) = Len(call.s) + Delta - MergedPairs

(* The last opcode, an XZERO, was replaced by a single VAL: the sketch is  *)
(* one byte shorter, with no tail to move.                                 *)
C31_Witness ==
    /\ SparseAdded
    /\ call.result.case = "D"
    /\ call.p + ReplacedLen = Len(call.s)
    /\ Delta = -1
    /\ Len(call.result.value) = Len(call.s) - 1

(* C32: in the general case of hllSparseAdd (the opcode is split) the      *)
(* sequence written to seq[5] is 1 to 3 opcodes of at most 5 bytes in all, *)
(* and it is at most 3 bytes longer than the opcode it replaces.           *)
C32_SplitFitsScratchAndReserve ==
    (call.fn = "hllSparseAdd" /\ call.result.case \in {"D", "promote_size"}) =>
        /\ OpCount(call.seq, 0) \in 1..3
        /\ EndsAtOpcode(call.seq, 0)
        /\ Len(call.seq) <= 5
        /\ Len(call.seq) - ReplacedLen <= 3
        /\ call.result.deltalen = Len(call.seq) - ReplacedLen

(* The worst case: an XZERO split in its middle into XZERO VAL XZERO.      *)
C32_Witness ==
    /\ call.fn = "hllSparseAdd"
    /\ call.result.case = "D"
    /\ Len(call.seq) = 5
    /\ Len(call.seq) - ReplacedLen = 3
    /\ Len(call.result.value) = Len(call.s) + 3

----------------------------------------------------------------------------
(* The sums of the three representations of the registers of the sparse    *)
(* sketch s: s itself, s converted by hllSparseToDense, and the raw array  *)
(* hllMerge makes of s for PFCOUNT with several keys.                      *)
SumAsSparse(s) == hllSparseSum(s)
SumAsDense(s) == hllDenseSum(hllSparseToDense(s).value)
SumAsRaw(s) == hllRawSum(RawSketch(hllMerge(MaxZeroes, s).max))

(* The stored values that are valid sparse sketches.                       *)
ValidSparseValues ==
    {store[k].value : k \in {k \in Keys :
        /\ store[k].found
        /\ isHLLObjectOrReply(store[k].value)
        /\ Encoding(store[k].value) = HLL_SPARSE
        /\ ~hllSparseSum(store[k].value).invalid}}

(* C33: for a valid sparse sketch, hllSparseSum of the sketch, hllDenseSum *)
(* of its dense form and hllRawSum of its raw register array give the same *)
(* count ez of zero registers and the same sum of 2^-register (the same    *)
(* bag of non-zero register values); hllCount of the sparse and of the     *)
(* dense form agree.                                                       *)
C33_SumsAgreeAcrossEncodings ==
    \A s \in ValidSparseValues :
        /\ SumAsDense(s).ez = SumAsSparse(s).ez
        /\ SumAsDense(s).pe = SumAsSparse(s).pe
        /\ SumAsRaw(s).ez = SumAsSparse(s).ez
        /\ SumAsRaw(s).pe = SumAsSparse(s).pe
        /\ ~SumAsDense(s).invalid /\ ~SumAsRaw(s).invalid
        /\ CountFromSum(SumAsDense(s)) = CountFromSum(SumAsSparse(s))

(* A sparse sketch with a VAL run of several registers, summed the same in *)
(* its three forms.                                                        *)
C33_Witness ==
    \E s \in ValidSparseValues :
        /\ \E p \in OpcodeStarts(s, HLL_HDR_SIZE) :
               HLL_SPARSE_IS_VAL(s, p) /\ HLL_SPARSE_VAL_LEN(s, p) >= 2
        /\ SumAsDense(s).pe = SumAsSparse(s).pe
        /\ SumAsRaw(s).pe = SumAsSparse(s).pe
        /\ SumAsSparse(s).ez < HLL_REGISTERS - 2

----------------------------------------------------------------------------
----------------------------------------------------------------------------
(* C35: when single-key PFCOUNT recomputes the cardinality and the Set     *)
(* that writes it back fails, PFCOUNT returns an error, not success.       *)
C35_FailedWriteBackIsAnError ==
    (/\ lastcmd.op = "PFCOUNT"
     /\ lastcmd.counted
     /\ lastcmd.sets # <<>>
     /\ set_error[lastcmd.key] # 0)
    => lastcmd.ret # 0

----------------------------------------------------------------------------
(* C36: in hllCount the two corrections exclude each other.  When the raw  *)
(* estimate E is below 2.5 * m and ez is not 0 the result is the linear    *)
(* counting estimate of ez with no bias subtracted; the bias is subtracted *)
(* only when that test fails and the raw E is below 72000.                 *)
C36_CorrectionsAreExclusive ==
    call.fn = "hllCount" =>
        /\ ~(call.result.linear /\ call.result.bias)
        /\ (2 * call.E < 5 * HLL_REGISTERS /\ call.ez # 0)
               => (call.result.linear /\ ~call.result.bias /\ call.result.of = call.ez)
        /\ call.result.bias
               => /\ ~(2 * call.E < 5 * HLL_REGISTERS /\ call.ez # 0)
                  /\ call.E < 72000
                  /\ call.result.of = call.E
        /\ call.result.linear => (2 * call.E < 5 * HLL_REGISTERS /\ call.ez # 0)

(* Linear counting chosen where its estimate (m * log(m / 4727), about     *)
(* 20366) is itself below 72000: no bias is subtracted from it.            *)
C36_Witness ==
    /\ call.fn = "hllCount"
    /\ call.E = 11838 /\ call.ez = 4727
    /\ call.result.linear /\ ~call.result.bias


----------------------------------------------------------------------------
(* KeyCache (src/src/common/cache/KeyCache.h, KeyCache.cpp).              *)
(*                                                                         *)
(* A key is a sequence of characters.  A TTL is an absolute time in        *)
(* milliseconds; INF, the largest value of the type, stands for "no        *)
(* expiry".  TTLs are only compared, so INF is the largest integer of the  *)
(* model.  KeyCache.cpp names the entry type CacheEntry; the header that   *)
(* defines it calls it KeyEntry.                                           *)
(***************************************************************************)
INF == 2147483647

CacheEntry(key, ttl) == [key |-> key, ttl |-> ttl]

(* KeyEntry::operator<: entries are ordered by their TTL alone.            *)
Less(a, b) == a.ttl < b.ttl

(* std::set<KeyEntry>: two entries are the same element when neither is    *)
(* less than the other.  find, insert (which leaves the set alone when an  *)
(* equivalent element is present), erase by value, begin.                  *)
SetFind(S, e) == {x \in S : ~Less(x, e) /\ ~Less(e, x)}
SetInsert(S, e) == IF SetFind(S, e) # {} THEN S ELSE S \cup {e}
SetErase(S, e) == S \ SetFind(S, e)
SetBegin(S) == CHOOSE x \in S : \A y \in S : ~Less(y, x)

(* dense_hash_map: erase by key, operator[] followed by an assignment.     *)
MapErase(M, key) == [k \in DOMAIN M \ {key} |-> M[k]]
MapAssign(M, key, ttl) == [k \in DOMAIN M \cup {key} |-> IF k = key THEN ttl ELSE M[k]]

Contents(S, M) == [sortedKeys |-> S, ttlByKey |-> M]

(* KeyCache::ensureTTL: while the first entry of sortedKeys has a TTL at   *)
(* or before the current time, erase it and erase its key from ttlByKey.   *)
RECURSIVE ensureTTL(_, _, _)
ensureTTLEntry(S, M, now, entry) ==
    IF entry.ttl > now
    THEN Contents(S, M)
    ELSE ensureTTL(S \ {entry}, MapErase(M, entry.key), now)
ensureTTL(S, M, now) ==
    IF S = {} THEN Contents(S, M) ELSE ensureTTLEntry(S, M, now, SetBegin(S))

(* KeyCache::Put(const CacheEntry&) after its ensureTTL.  The argument of  *)
(* find is the key, converted to an entry with the default TTL INF.        *)
Put(c, keyEntry) ==
    IF SetFind(c.sortedKeys, CacheEntry(keyEntry.key, INF)) = {}
    THEN Contents(SetInsert(c.sortedKeys, keyEntry),
                  MapAssign(c.ttlByKey, keyEntry.key, keyEntry.ttl))
    ELSE c

(* KeyCache::Delete after its ensureTTL.                                   *)
Delete(c, key) ==
    IF key \in DOMAIN c.ttlByKey
    THEN Contents(SetErase(c.sortedKeys, CacheEntry(key, c.ttlByKey[key])),
                  MapErase(c.ttlByKey, key))
    ELSE c

(* KeyCache::Expire after its ensureTTL.                                   *)
Expire(c, key, ttl) ==
    IF key \in DOMAIN c.ttlByKey
    THEN Contents(SetInsert(SetErase(c.sortedKeys, CacheEntry(key, c.ttlByKey[key])),
                            CacheEntry(key, ttl)),
                  MapAssign(c.ttlByKey, key, ttl))
    ELSE c

(* KeyCache::isOptimizedPattern.                                           *)
Special == {"?", "[", "\\"}
isOptimizedPattern(pattern) ==
    /\ \A i \in 2..(Len(pattern) - 1) : pattern[i] \notin Special \cup {"*"}
    /\ pattern[1] \notin Special
    /\ pattern[Len(pattern)] \notin Special

(* The matchers.                                                           *)
PrefixMatcher(prefix, t) ==
    Len(prefix) <= Len(t) /\ SubSeq(t, 1, Len(prefix)) = prefix
SuffixMatcher(suffix, t) ==
    Len(suffix) <= Len(t) /\ SubSeq(t, Len(t) - Len(suffix) + 1, Len(t)) = suffix
SubstringMatcher(substring, t) ==
    \E i \in 0..(Len(t) - Len(substring)) : SubSeq(t, i + 1, i + Len(substring)) = substring
EqualsMatcher(str, t) == str = t

(* The matcher KeyCache::Get chooses for an optimized pattern, applied to  *)
(* the key t.                                                              *)
Matcher(pattern, t) ==
    IF Len(pattern) # 1 /\ pattern[1] = "*" /\ pattern[Len(pattern)] = "*"
    THEN SubstringMatcher(SubSeq(pattern, 2, Len(pattern) - 1), t)
    ELSE IF pattern[1] = "*"
    THEN SuffixMatcher(SubSeq(pattern, 2, Len(pattern)), t)
    ELSE IF pattern[Len(pattern)] = "*"
    THEN PrefixMatcher(SubSeq(pattern, 1, Len(pattern) - 1), t)
    ELSE EqualsMatcher(pattern, t)

(* The loop of KeyCache::Get over ttlByKey.  The order of the result is    *)
(* the iteration order of the hash map; the model keeps the set of keys.   *)
GetKeys(M, pattern) == {k \in DOMAIN M : Matcher(pattern, k)}

(* The inputs: two keys, TTLs inside and beyond the run of the clock, the  *)
(* patterns of each matcher and one pattern that is not optimized.         *)
MaxTime == 3
CacheKeys == {<<"a">>, <<"b", "a">>}
CacheTTLs == (StartTime + 1)..MaxTime \cup {INF}
Patterns ==
    {<<"*">>, <<"a">>, <<"b", "a">>, <<"*", "a">>, <<"b", "*">>, <<"*", "a", "*">>, <<"b", "?">>}

(* The clock advances.                                                     *)
Tick ==
    /\ currentTime < MaxTime
    /\ currentTime' = currentTime + 1
    /\ UNCHANGED <<store, hll_sparse_max_bytes, lastcmd, get_error, set_error, threads,
                   locks, PE, initialized, call, sortedKeys, ttlByKey, lock, ensureTtlLock>>

(* What a call of the cache on one thread leaves alone.                    *)
beside == <<store, hll_sparse_max_bytes, lastcmd, get_error, set_error, threads, locks, PE,
            initialized, currentTime, lock, ensureTtlLock>>

Becomes(c) ==
    /\ sortedKeys' = c.sortedKeys
    /\ ttlByKey' = c.ttlByKey

Cached(c, key) == key \in DOMAIN c.ttlByKey \/ \E e \in c.sortedKeys : e.key = key

(* KeyCache::Put(const KeyType&) is Put(CacheEntry(kt, INF)).              *)
KeyCachePutIn(c, key, ttl) ==
    /\ Becomes(Put(c, CacheEntry(key, ttl)))
    /\ call' = [fn |-> "Put", key |-> key, ttl |-> ttl, cached |-> Cached(c, key)]
KeyCachePut(key, ttl) ==
    /\ KeyCachePutIn(ensureTTL(sortedKeys, ttlByKey, currentTime), key, ttl)
    /\ UNCHANGED beside

KeyCacheDelete(key) ==
    /\ Becomes(Delete(ensureTTL(sortedKeys, ttlByKey, currentTime), key))
    /\ call' = [fn |-> "Delete", key |-> key]
    /\ UNCHANGED beside

KeyCacheExpire(key, ttl) ==
    /\ Becomes(Expire(ensureTTL(sortedKeys, ttlByKey, currentTime), key, ttl))
    /\ call' = [fn |-> "Expire", key |-> key, ttl |-> ttl]
    /\ UNCHANGED beside

KeyCacheGetIn(c, pattern) ==
    /\ Becomes(c)
    /\ call' = [fn |-> "Get", pattern |-> pattern, result |-> GetKeys(c.ttlByKey, pattern)]
KeyCacheGet(pattern) ==
    /\ isOptimizedPattern(pattern)
    /\ KeyCacheGetIn(ensureTTL(sortedKeys, ttlByKey, currentTime), pattern)
    /\ UNCHANGED beside

KeyCacheSizeIn(c) ==
    /\ Becomes(c)
    /\ call' = [fn |-> "size", result |-> Cardinality(c.sortedKeys)]
KeyCacheSize ==
    /\ KeyCacheSizeIn(ensureTTL(sortedKeys, ttlByKey, currentTime))
    /\ UNCHANGED beside

NextCache ==
    \/ \E key \in CacheKeys, ttl \in CacheTTLs : KeyCachePut(key, ttl)
    \/ \E key \in CacheKeys : KeyCacheDelete(key)
    \/ \E key \in CacheKeys, ttl \in CacheTTLs : KeyCacheExpire(key, ttl)
    \/ \E pattern \in Patterns : KeyCacheGet(pattern)
    \/ KeyCacheSize
    \/ Tick

SpecCache == Init /\ [][NextCache]_vars


----------------------------------------------------------------------------
(* The key cache, one thread.                                              *)

(* The entries ttlByKey stands for, and the cache as a call entering now   *)
(* finds it after its ensureTTL.                                           *)
Entries(M) == {CacheEntry(k, M[k]) : k \in DOMAIN M}
Ensured == ensureTTL(sortedKeys, ttlByKey, currentTime)

(* C37: after any sequence of Put, Delete and Expire, sortedKeys and       *)
(* ttlByKey hold the same keys with the same TTLs, and size() is the       *)
(* number of keys Get("*") returns.                                        *)
C37_IndexAndMapAgree ==
    /\ sortedKeys = Entries(ttlByKey)
    /\ Cardinality(Ensured.sortedKeys) = Cardinality(GetKeys(Ensured.ttlByKey, <<"*">>))

(* C38: after Put(k, ttl) on a cache that did not hold k, and while ttl is *)
(* later than the current time, Get with the exact pattern k returns k,    *)
(* whatever else is cached.                                                *)
C38_PutThenGetReturnsTheKey ==
    (call.fn = "Put" /\ ~call.cached /\ call.ttl > currentTime)
        => call.key \in GetKeys(Ensured.ttlByKey, call.key)

(* C39: a Get returns no key whose TTL is at or before the current time,   *)
(* and no call removes a key whose TTL is later than the current time,     *)
(* except the Delete of that key.                                          *)
NothingExpiredIsKept == \A k \in DOMAIN Ensured.ttlByKey : Ensured.ttlByKey[k] > currentTime
NothingLiveIsDropped ==
    \A k \in DOMAIN ttlByKey :
        (ttlByKey[k] > currentTime /\ ~(call'.fn = "Delete" /\ call'.key = k))
            => k \in DOMAIN ttlByKey'
C39_ExpiryFollowsTheTTL == []NothingExpiredIsKept /\ [][NothingLiveIsDropped]_vars


----------------------------------------------------------------------------
(* ConcurrentKeyCache (src/src/common/cache/ConcurrentKeyCache.cpp): each  *)
(* thread makes one call.  Put, Delete and Expire construct a              *)
(* WriteLockGuard on lock, Get and size a ReadLockGuard; the ensureTTL the *)
(* calls of KeyCache reach is ConcurrentKeyCache::ensureTTL, which holds   *)
(* ensureTtlLock around KeyCache::ensureTTL.  A thread's pc is "start",    *)
(* "ensure" (guard constructed), "expiring" (at the head of the loop of    *)
(* ensureTTL), "erase" (between the two erasures of one iteration), "body" *)
(* (ensureTTL has returned), "iterate" (inside the loop of Get), "end"     *)
(* and "done".                                                             *)
(***************************************************************************)
CacheCall(op, key, ttl, pattern) ==
    [op |-> op, key |-> key, ttl |-> ttl, pattern |-> pattern, pc |-> "start",
     now |-> 0, entry |-> CacheEntry(<<>>, 0), raced |-> FALSE, result |-> {}]

CacheCalls ==
    {CacheCall("Get", <<>>, 0, <<"*">>),
     CacheCall("size", <<>>, 0, <<>>),
     CacheCall("Put", <<"a">>, MaxTime, <<>>),
     CacheCall("Delete", <<"b", "a">>, 0, <<>>),
     CacheCall("Expire", <<"b", "a">>, INF, <<>>)}

Readers == {"Get", "size"}

(* What a step of a thread on the cache leaves alone.                      *)
outside == <<store, hll_sparse_max_bytes, lastcmd, get_error, set_error, locks, PE,
             initialized, call, currentTime>>

(* ReadLockGuard<SpinRWLock> guard(lock): waits while a writer holds it.   *)
ReadLock(t) ==
    /\ threads[t].pc = "start"
    /\ threads[t].op \in Readers
    /\ lock.writer = 0
    /\ lock' = [lock EXCEPT !.readers = @ \cup {t}]
    /\ threads' = [threads EXCEPT ![t].pc = "ensure"]
    /\ UNCHANGED <<outside, sortedKeys, ttlByKey, ensureTtlLock>>

(* WriteLockGuard<SpinRWLock> guard(lock): waits while anyone holds it.    *)
WriteLock(t) ==
    /\ threads[t].pc = "start"
    /\ threads[t].op \notin Readers
    /\ lock.writer = 0
    /\ lock.readers = {}
    /\ lock' = [lock EXCEPT !.writer = t]
    /\ threads' = [threads EXCEPT ![t].pc = "ensure"]
    /\ UNCHANGED <<outside, sortedKeys, ttlByKey, ensureTtlLock>>

(* ConcurrentKeyCache::ensureTTL: LockGuard<SpinMutexLock> guard, then     *)
(* KeyCache::ensureTTL reads the clock.                                    *)
EnsureLock(t) ==
    /\ threads[t].pc = "ensure"
    /\ ensureTtlLock = 0
    /\ ensureTtlLock' = t
    /\ threads' = [threads EXCEPT ![t].pc = "expiring", ![t].now = currentTime]
    /\ UNCHANGED <<outside, sortedKeys, ttlByKey, lock>>

Expired(t) == sortedKeys # {} /\ SetBegin(sortedKeys).ttl <= threads[t].now

(* One iteration of the loop of KeyCache::ensureTTL, first half: the       *)
(* first entry has expired, sortedKeys.erase(sortedKeys.begin()).          *)
EraseFirst(t) ==
    /\ threads[t].pc = "expiring"
    /\ Expired(t)
    /\ sortedKeys' = sortedKeys \ {SetBegin(sortedKeys)}
    /\ threads' = [threads EXCEPT ![t].pc = "erase", ![t].entry = SetBegin(sortedKeys)]
    /\ UNCHANGED <<outside, ttlByKey, lock, ensureTtlLock>>

(* Second half: ttlByKey.erase(entry.key).  A thread that is iterating     *)
(* over ttlByKey meanwhile has raced with the erasure.                     *)
EraseKey(t) ==
    /\ threads[t].pc = "erase"
    /\ ttlByKey' = MapErase(ttlByKey, threads[t].entry.key)
    /\ threads' = [u \in Threads |->
                      IF u = t THEN [threads[u] EXCEPT !.pc = "expiring"]
                      ELSE IF threads[u].pc = "iterate"
                      THEN [threads[u] EXCEPT !.raced = TRUE]
                      ELSE threads[u]]
    /\ UNCHANGED <<outside, sortedKeys, lock, ensureTtlLock>>

(* The return of ensureTTL: the set is empty or its first entry has a TTL  *)
(* later than the time read; the guard releases ensureTtlLock.             *)
EnsureReturn(t) ==
    /\ threads[t].pc = "expiring"
    /\ ~Expired(t)
    /\ ensureTtlLock' = 0
    /\ threads' = [threads EXCEPT ![t].pc = "body"]
    /\ UNCHANGED <<outside, sortedKeys, ttlByKey, lock>>

WriteResult(c, call_) ==
    IF call_.op = "Put" THEN Put(c, CacheEntry(call_.key, call_.ttl))
    ELSE IF call_.op = "Delete" THEN Delete(c, call_.key)
    ELSE Expire(c, call_.key, call_.ttl)

(* The rest of KeyCache::Put, Delete or Expire, under the write lock.      *)
WriteBody(t) ==
    /\ threads[t].pc = "body"
    /\ threads[t].op \notin Readers
    /\ Becomes(WriteResult(Contents(sortedKeys, ttlByKey), threads[t]))
    /\ threads' = [threads EXCEPT ![t].pc = "end"]
    /\ UNCHANGED <<outside, lock, ensureTtlLock>>

(* KeyCache::Get: the loop over ttlByKey starts.                           *)
IterBegin(t) ==
    /\ threads[t].pc = "body"
    /\ threads[t].op = "Get"
    /\ threads' = [threads EXCEPT ![t].pc = "iterate"]
    /\ UNCHANGED <<outside, sortedKeys, ttlByKey, lock, ensureTtlLock>>

(* The loop ends.  An iteration that raced with an erasure has undefined   *)
(* behaviour: of its outcomes the model keeps those that return some of    *)
(* the keys the pattern matches.                                           *)
IterEnd(t) ==
    /\ threads[t].pc = "iterate"
    /\ \E result \in IF threads[t].raced
                     THEN SUBSET {k \in CacheKeys : Matcher(threads[t].pattern, k)}
                     ELSE {GetKeys(ttlByKey, threads[t].pattern)} :
          threads' = [threads EXCEPT ![t].pc = "end", ![t].result = result]
    /\ UNCHANGED <<outside, sortedKeys, ttlByKey, lock, ensureTtlLock>>

(* KeyCache::size: return sortedKeys.size().                               *)
SizeRead(t) ==
    /\ threads[t].pc = "body"
    /\ threads[t].op = "size"
    /\ threads' = [threads EXCEPT ![t].pc = "end", ![t].result = Cardinality(sortedKeys)]
    /\ UNCHANGED <<outside, sortedKeys, ttlByKey, lock, ensureTtlLock>>

(* The destructor of the guard on lock.                                    *)
Unlock(t) ==
    /\ threads[t].pc = "end"
    /\ lock' = [readers |-> lock.readers \ {t},
                writer |-> IF lock.writer = t THEN 0 ELSE lock.writer]
    /\ threads' = [threads EXCEPT ![t].pc = "done"]
    /\ UNCHANGED <<outside, sortedKeys, ttlByKey, ensureTtlLock>>

(* Two cached keys, the first of which expires while the clock runs.       *)
InitConcurrent ==
    /\ store = [k \in Keys |-> NotFound]
    /\ hll_sparse_max_bytes = DefaultSparseMaxBytes
    /\ lastcmd = NoCmd
    /\ get_error = [k \in Keys |-> 0]
    /\ set_error = [k \in Keys |-> 0]
    /\ locks = [k \in Keys |-> 0]
    /\ PE = [j \in 0..63 |-> DoubleZero]
    /\ initialized = 0
    /\ call = NoCall
    /\ threads \in [Threads -> CacheCalls]
    /\ sortedKeys = {CacheEntry(<<"a">>, StartTime + 1), CacheEntry(<<"b", "a">>, MaxTime)}
    /\ ttlByKey = (<<"a">> :> StartTime + 1) @@ (<<"b", "a">> :> MaxTime)
    /\ currentTime = StartTime
    /\ lock = [readers |-> {}, writer |-> 0]
    /\ ensureTtlLock = 0

NextConcurrent ==
    \/ \E t \in Threads :
          \/ ReadLock(t)
          \/ WriteLock(t)
          \/ EnsureLock(t)
          \/ EraseFirst(t)
          \/ EraseKey(t)
          \/ EnsureReturn(t)
          \/ WriteBody(t)
          \/ IterBegin(t)
          \/ IterEnd(t)
          \/ SizeRead(t)
          \/ Unlock(t)
    \/ Tick

SpecConcurrent == InitConcurrent /\ [][NextConcurrent]_vars

(* A thread is in the middle of changing the containers: between the two   *)
(* erasures of ensureTTL, or in the body of Put, Delete or Expire.  A      *)
(* thread is reading them: inside the loop of Get.                         *)
Modifying(t) ==
    \/ threads[t].pc = "erase"
    \/ threads[t].pc = "body" /\ threads[t].op \notin Readers
Reading(t) == threads[t].pc = "iterate"

(* C40: no thread modifies sortedKeys or ttlByKey while another thread     *)
(* reads them; in particular the removal of expired entries by one Get or  *)
(* size never overlaps the iteration of another Get.                       *)
C40_NoModificationDuringARead ==
    \A t \in Threads : \A u \in Threads \ {t} : ~(Modifying(t) /\ Reading(u))

====
